---------------------------- MODULE Spec2Model ----------------------------
(***************************************************************************)
(* Record reconciliation of MOSQUERA18/Comparar-Nombres.                   *)
(*                                                                         *)
(* The repository holds four near-duplicate scripts (main.py,              *)
(* documentos.py, unidos.py, unidos2.py).  Each compares values extracted  *)
(* from PDF files (names, document numbers) with the columns of an Excel   *)
(* roster.  One behaviour of this model is one run of one comparison       *)
(* operation of one script: Init draws the operation and its inputs, and   *)
(* each action is one iteration of the operation's loop.                   *)
(*                                                                         *)
(* A text is a sequence of characters.  A character is a one-character     *)
(* string; a character outside ASCII is written by its code point          *)
(* ("U+00D3" is LATIN CAPITAL LETTER O WITH ACUTE).                        *)
(***************************************************************************)
EXTENDS Integers, Sequences, FiniteSets, TLC

VARIABLES
    op,               \* the operation this run executes
    texto_pdf,        \* extraction run: what the patterns find in a PDF's text
    documentos_pdf,   \* document records extracted from the PDFs
    documentos_excel_raw, \* the roster's document column as read from the sheet
    documentos_excel, \* the roster's document column, digits only
    nombres_pdf,      \* names extracted from the PDFs, raw
    nombres_excel,    \* the roster's name column, raw
    pdfs,             \* full validation: what each PDF of the folder yields
    fase,             \* position of the run: "pdfs", "excel", "fin", "error"
    i,                \* number of loop iterations completed in this phase
    disponibles,      \* the comparator's private list of unclaimed documents
    resultados,       \* the rows emitted so far
    estado_doc,       \* unidos2 full validation: local that outlives an iteration
    score_in,         \* classifier run: the score to classify
    archivos_no_leidos, \* folder run: the files reported as not processed
    hilos             \* GUI session: the comparison runs started in background threads

vars == <<op, texto_pdf, hilos, archivos_no_leidos, documentos_pdf, documentos_excel_raw, documentos_excel, nombres_pdf, nombres_excel,
          pdfs, fase, i, disponibles, resultados, estado_doc, score_in>>

--------------------------------------------------------------------------
(* Bounds of the model.                                                    *)

MaxPdf == 2       \* records handed to a comparator
MaxExcel == 2     \* roster entries handed to a comparator
MaxPartes == 4    \* tokens of a name handed to the reordering
MaxTexto == 3     \* characters of a text handed to the normalizers

--------------------------------------------------------------------------
(* Generic helpers.                                                        *)

Max(a, b) == IF a >= b THEN a ELSE b

Range(s) == {s[k] : k \in 1..Len(s)}

SeqsUpTo(S, n) == UNION {[1..k -> S] : k \in 0..n}

\* position of the first element of s equal to x, 0 when there is none
\* (list.index, and the test "x in s").
RECURSIVE IndexFrom(_, _, _)
IndexFrom(s, x, k) ==
    IF k > Len(s) THEN 0
    ELSE IF s[k] = x THEN k
    ELSE IndexFrom(s, x, k + 1)

Index(s, x) == IndexFrom(s, x, 1)

\* list.remove(x): the list without the first element equal to x.
Remove(s, x) ==
    LET k == Index(s, x)
    IN  IF k = 0 THEN s
        ELSE [j \in 1..(Len(s) - 1) |-> IF j < k THEN s[j] ELSE s[j + 1]]

RECURSIVE Concat(_)
Concat(ss) == IF ss = <<>> THEN <<>> ELSE Head(ss) \o Concat(Tail(ss))

--------------------------------------------------------------------------
(* Characters.                                                             *)

Mayusculas == <<"A", "B", "C", "D", "E", "F", "G", "H", "I", "J", "K", "L", "M",
                "N", "O", "P", "Q", "R", "S", "T", "U", "V", "W", "X", "Y", "Z">>

Minusculas == <<"a", "b", "c", "d", "e", "f", "g", "h", "i", "j", "k", "l", "m",
                "n", "o", "p", "q", "r", "s", "t", "u", "v", "w", "x", "y", "z">>

Cifras == <<"0", "1", "2", "3", "4", "5", "6", "7", "8", "9">>

Digitos == Range(Cifras)

\* what the regex class \s matches in an ASCII text
Espacios == {" ", "\t", "\n"}

\* accented letters: lower case, upper case, base letter of the NFKD form
Acentos == << <<"U+00E1", "U+00C1", "A">>, <<"U+00E9", "U+00C9", "E">>,
              <<"U+00ED", "U+00CD", "I">>, <<"U+00F3", "U+00D3", "O">>,
              <<"U+00FA", "U+00DA", "U">>, <<"U+00F1", "U+00D1", "N">> >>

\* the combining mark NFKD splits off an accented letter (written once: the
\* ASCII encoding drops every one of them alike)
Combinante == "U+0301"

LetrasMayusculas == Range(Mayusculas)
LetrasMinusculas == Range(Minusculas)
Puntuacion == {".", ",", "-", "/"}

Ascii == LetrasMayusculas \cup LetrasMinusculas \cup Digitos \cup Espacios
             \cup Puntuacion

\* every character a text of the model is made of
Caracteres ==
    Ascii \cup {t[1] : t \in Range(Acentos)} \cup {t[2] : t \in Range(Acentos)}
          \cup {Combinante, "U+2014"}

\* str.upper(), one character at a time
UpperTabla ==
    [c \in Caracteres |->
        LET k == Index(Minusculas, c)
            a == {t \in Range(Acentos) : t[1] = c}
        IN  IF k > 0 THEN Mayusculas[k]
            ELSE IF a # {} THEN (CHOOSE t \in a : TRUE)[2]
            ELSE c]

Upper(c) == UpperTabla[c]

\* str.lower(), one character at a time
LowerTabla ==
    [c \in Caracteres |->
        LET k == Index(Mayusculas, c)
            a == {t \in Range(Acentos) : t[2] = c}
        IN  IF k > 0 THEN Minusculas[k]
            ELSE IF a # {} THEN (CHOOSE t \in a : TRUE)[1]
            ELSE c]

Lower(c) == LowerTabla[c]

\* unicodedata.normalize("NFKD", .), one character at a time
NFKDTabla ==
    [c \in Caracteres |->
        LET lo == {t \in Range(Acentos) : t[1] = c}
            up == {t \in Range(Acentos) : t[2] = c}
        IN  IF up # {} THEN <<(CHOOSE t \in up : TRUE)[3], Combinante>>
            ELSE IF lo # {} THEN <<Lower((CHOOSE t \in lo : TRUE)[3]), Combinante>>
            ELSE <<c>>]

NFKD(c) == NFKDTabla[c]

EsAscii(c) == c \in Ascii

--------------------------------------------------------------------------
(* Texts.                                                                  *)

RECURSIVE LStrip(_)
LStrip(s) ==
    IF s # <<>> /\ Head(s) \in Espacios THEN LStrip(Tail(s)) ELSE s

RECURSIVE RStrip(_)
RStrip(s) ==
    IF s # <<>> /\ s[Len(s)] \in Espacios
    THEN RStrip(SubSeq(s, 1, Len(s) - 1)) ELSE s

\* str.strip()
Strip(s) == RStrip(LStrip(s))

\* re.sub(r"\s+", " ", s)
RECURSIVE ColapsarEspacios(_)
ColapsarEspacios(s) ==
    IF s = <<>> THEN <<>>
    ELSE IF Head(s) \in Espacios
    THEN <<" ">> \o ColapsarEspacios(LStrip(s))
    ELSE <<Head(s)>> \o ColapsarEspacios(Tail(s))

\* str.split(): the maximal runs of non-space characters, in order
RECURSIVE SplitAcc(_, _, _)
SplitAcc(s, cur, acc) ==
    IF s = <<>> THEN (IF cur = <<>> THEN acc ELSE Append(acc, cur))
    ELSE IF Head(s) \in Espacios
    THEN SplitAcc(Tail(s), <<>>, IF cur = <<>> THEN acc ELSE Append(acc, cur))
    ELSE SplitAcc(Tail(s), Append(cur, Head(s)), acc)

Split(s) == SplitAcc(s, <<>>, <<>>)

\* " ".join(tokens)
RECURSIVE Join(_)
Join(ts) ==
    IF ts = <<>> THEN <<>>
    ELSE IF Len(ts) = 1 THEN Head(ts)
    ELSE Head(ts) \o <<" ">> \o Join(Tail(ts))

--------------------------------------------------------------------------
(* Normalizers.                                                            *)

\* one character through upper(), NFKD, the ASCII encoding that ignores what
\* it cannot encode, and re.sub(r"[^A-Z\s]", "", .)
LetraOEspacioTabla ==
    [c \in Caracteres |->
        SelectSeq(NFKD(Upper(c)),
                  LAMBDA d : d \in LetrasMayusculas \/ d \in Espacios)]

LetraOEspacio(c) == LetraOEspacioTabla[c]

\* the normalizer without its closing strip()
normalizar_texto_sin_strip(texto) ==
    LET t == Strip(texto)
    IN  ColapsarEspacios(Concat([k \in 1..Len(t) |-> LetraOEspacio(t[k])]))

\* normalizar_texto of unidos.py and unidos2.py, normalizar of main.py
normalizar_texto(texto) ==
    LET t == Strip(texto)
    IN  Strip(ColapsarEspacios(Concat([k \in 1..Len(t) |-> LetraOEspacio(t[k])])))

\* normalizar_documento: re.sub(r"[^0-9]", "", documento)
normalizar_documento(documento) ==
    SelectSeq(documento, LAMBDA c : c \in Digitos)

--------------------------------------------------------------------------
(* fuzzywuzzy.fuzz                                                         *)

\* One row of the longest-common-subsequence table: prev is the row of the
\* characters before ch, cur the part of the new row already computed
\* (position j + 1 holds column j).
RECURSIVE LcsFila(_, _, _, _)
LcsFila(ch, b, prev, cur) ==
    IF Len(cur) = Len(b) + 1 THEN cur
    ELSE LET j == Len(cur)
         IN  LcsFila(ch, b, prev,
                     Append(cur, IF ch = b[j] THEN prev[j] + 1
                                 ELSE Max(prev[j + 1], cur[j])))

RECURSIVE LcsFilas(_, _, _, _)
LcsFilas(a, b, k, prev) ==
    IF k > Len(a) THEN prev[Len(b) + 1]
    ELSE LcsFilas(a, b, k + 1, LcsFila(a[k], b, prev, <<0>>))

\* number of matched characters M of the two texts
Coincidencias(a, b) == LcsFilas(a, b, 1, [j \in 1..(Len(b) + 1) |-> 0])

\* utils.intr: int(round(num / den)), Python rounding halves to even
Intr(num, den) ==
    LET q == num \div den
        r == num % den
    IN  IF 2 * r > den THEN q + 1
        ELSE IF 2 * r = den THEN q + (q % 2)
        ELSE q

\* fuzz.ratio: 100 for equal texts, 0 when either is empty, else
\* intr(100 * 2M / T) with T the sum of the lengths
ratio(s1, s2) ==
    IF s1 = s2 THEN 100
    ELSE IF Len(s1) = 0 \/ Len(s2) = 0 THEN 0
    ELSE Intr(200 * Coincidencias(s1, s2), Len(s1) + Len(s2))

\* one character of utils.full_process: a letter or a digit lower-cased, a
\* blank for anything else
AlnumTabla ==
    [c \in Caracteres |->
        IF c \in LetrasMayusculas \cup LetrasMinusculas \cup Digitos
        THEN Lower(c) ELSE " "]

\* utils.full_process(s, force_ascii=True): drop what is not ASCII, blank what
\* is neither letter nor digit, lower-case, strip
full_process(s) ==
    LET ascii == SelectSeq(s, EsAscii)
    IN  Strip([k \in 1..Len(ascii) |-> AlnumTabla[ascii[k]]])

\* code point order of the characters full_process leaves in a token
OrdTabla ==
    [c \in Digitos \cup LetrasMinusculas |->
        IF c \in Digitos THEN Index(Cifras, c) ELSE 10 + Index(Minusculas, c)]

Ord(c) == OrdTabla[c]

\* t1 < t2 as Python compares strings
RECURSIVE Menor(_, _)
Menor(t1, t2) ==
    IF t2 = <<>> THEN FALSE
    ELSE IF t1 = <<>> THEN TRUE
    ELSE IF Ord(Head(t1)) # Ord(Head(t2)) THEN Ord(Head(t1)) < Ord(Head(t2))
    ELSE Menor(Tail(t1), Tail(t2))

RECURSIVE Insertar(_, _)
Insertar(t, ts) ==
    IF ts = <<>> THEN <<t>>
    ELSE IF Menor(t, Head(ts)) THEN <<t>> \o ts
    ELSE <<Head(ts)>> \o Insertar(t, Tail(ts))

\* sorted(tokens)
RECURSIVE Sorted(_)
Sorted(ts) == IF ts = <<>> THEN <<>> ELSE Insertar(Head(ts), Sorted(Tail(ts)))

\* fuzz._process_and_sort
process_and_sort(s) == Strip(Join(Sorted(Split(full_process(s)))))

\* fuzz.token_sort_ratio
token_sort_ratio(s1, s2) == ratio(process_and_sort(s1), process_and_sort(s2))

--------------------------------------------------------------------------
(* Status texts and thresholds.  A status is a tuple: the message, then    *)
(* the score when the message is formatted with it ("... ALTA (95%)").     *)
(* U+2714 is the check mark, U+26A0 the warning sign, U+274C the cross.    *)

UMBRAL_EXACTA == 100
UMBRAL_ALTA == 90
UMBRAL_MEDIA == 70
UMBRAL_BAJA == 50

MSG_EXACTA == "U+2714 EXACTA"
MSG_ALTA == "U+26A0 ALTA"
MSG_MEDIA == "U+26A0 MEDIA"
MSG_BAJA == "U+26A0 BAJA"
MSG_SIN == "U+274C SIN COINCIDENCIA"
MSG_DOC_VACIO == "DOCUMENTO VACIO"

\* the text "DOCUMENTO VACIO" the comparators of documentos.py and unidos.py
\* write in the match column of an empty record
TextoDocumentoVacio ==
    <<"D", "O", "C", "U", "M", "E", "N", "T", "O", " ", "V", "A", "C", "I", "O">>

\* the text "NOMBRE PDF VACIO/INVALIDO" of main.py and unidos.py
TextoNombreVacio ==
    <<"N", "O", "M", "B", "R", "E", " ", "P", "D", "F", " ", "V", "A", "C", "I",
      "O", "/", "I", "N", "V", "A", "L", "I", "D", "O">>

\* the dash unidos2 writes where a row has no value
Raya == <<"U+2014">>

\* evaluar_similitud with the comparison against UMBRAL_ALTA made strict
evaluar_similitud_alta_estricta(score) ==
    IF score = UMBRAL_EXACTA THEN [estado |-> <<MSG_EXACTA>>, fill |-> "FILL_VERDE"]
    ELSE IF score > UMBRAL_ALTA
    THEN [estado |-> <<MSG_ALTA, score>>, fill |-> "FILL_AMARILLO"]
    ELSE IF score >= UMBRAL_MEDIA
    THEN [estado |-> <<MSG_MEDIA, score>>, fill |-> "FILL_AMARILLO"]
    ELSE IF score >= UMBRAL_BAJA
    THEN [estado |-> <<MSG_BAJA, score>>, fill |-> "FILL_AZUL"]
    ELSE [estado |-> <<MSG_SIN>>, fill |-> "FILL_ROJO"]

\* unidos2.evaluar_similitud: the status and the fill of a score
evaluar_similitud(score) ==
    IF score = UMBRAL_EXACTA THEN [estado |-> <<MSG_EXACTA>>, fill |-> "FILL_VERDE"]
    ELSE IF score >= UMBRAL_ALTA
    THEN [estado |-> <<MSG_ALTA, score>>, fill |-> "FILL_AMARILLO"]
    ELSE IF score >= UMBRAL_MEDIA
    THEN [estado |-> <<MSG_MEDIA, score>>, fill |-> "FILL_AMARILLO"]
    ELSE IF score >= UMBRAL_BAJA
    THEN [estado |-> <<MSG_BAJA, score>>, fill |-> "FILL_AZUL"]
    ELSE [estado |-> <<MSG_SIN>>, fill |-> "FILL_ROJO"]

\* unidos.comparar_nombres_fuzzy, the if/elif chain on mejor_score
estado_nombre_unidos(mejor_score) ==
    IF mejor_score = 100 THEN <<"U+2714 EXACTA">>
    ELSE IF mejor_score >= 90 THEN <<"U+26A0 ALTA", mejor_score>>
    ELSE IF mejor_score >= 70 THEN <<"U+26A0 MEDIA", mejor_score>>
    ELSE IF mejor_score >= 50 THEN <<"U+26A0 BAJA", mejor_score>>
    ELSE <<"U+274C SIN COINCIDENCIA">>

\* unidos.comparar_documentos_exactos, the if/elif chain on mejor_similitud
\* (it has no branch for 100)
estado_documento_unidos(mejor_similitud) ==
    IF mejor_similitud >= 90 THEN <<"U+26A0 ALTA", mejor_similitud>>
    ELSE IF mejor_similitud >= 70 THEN <<"U+26A0 MEDIA", mejor_similitud>>
    ELSE IF mejor_similitud >= 50 THEN <<"U+26A0 BAJA", mejor_similitud>>
    ELSE <<"U+274C SIN COINCIDENCIA">>

\* main.comparar_nombres_pdf_excel, the status of mejor_score
estado_nombre_main(mejor_score) ==
    IF mejor_score > 0 /\ mejor_score < 100 THEN <<"U+26A0", mejor_score>>
    ELSE IF mejor_score = 100 THEN <<"U+2714">>
    ELSE <<"U+274C">>

--------------------------------------------------------------------------
(* The fuzzy scans.  Every one keeps the first entry that reaches the      *)
(* maximum: a later entry replaces the best only on a greater score.       *)

\* the scan with "if sim >= mejor": on equal scores the later entry wins
RECURSIVE MejorDocumento_ultimo(_, _, _, _)
MejorDocumento_ultimo(doc, lista, k, mejor) ==
    IF k > Len(lista) THEN mejor
    ELSE LET sim == ratio(doc, lista[k])
         IN  MejorDocumento_ultimo(doc, lista, k + 1,
                                   IF sim >= mejor.sim /\ sim > 0
                                   THEN [sim |-> sim, match |-> lista[k]]
                                   ELSE mejor)

\* for doc_excel in lista: sim = fuzz.ratio(doc, doc_excel);
\*     if sim > mejor: mejor = sim; match = doc_excel
RECURSIVE MejorDocumento(_, _, _, _)
MejorDocumento(doc, lista, k, mejor) ==
    IF k > Len(lista) THEN mejor
    ELSE LET sim == ratio(doc, lista[k])
         IN  MejorDocumento(doc, lista, k + 1,
                            IF sim > mejor.sim
                            THEN [sim |-> sim, match |-> lista[k]]
                            ELSE mejor)

\* documentos.encontrar_mejor_coincidencia
encontrar_mejor_coincidencia(documento_pdf, lista) ==
    IF Index(lista, documento_pdf) > 0
    THEN [match |-> documento_pdf, sim |-> 100, estado |-> <<"U+2714 EXACTA">>]
    ELSE LET m == MejorDocumento(documento_pdf, lista, 1, [sim |-> 0, match |-> <<>>])
         IN  [match |-> m.match, sim |-> m.sim,
              estado |-> IF m.sim >= 90 THEN <<"U+26A0 ALTA SIMILITUD">>
                         ELSE IF m.sim >= 70 THEN <<"U+26A0 MEDIA SIMILITUD">>
                         ELSE IF m.sim >= 50 THEN <<"U+26A0 BAJA SIMILITUD">>
                         ELSE <<"U+274C SIN COINCIDENCIA">>]

--------------------------------------------------------------------------
(* The document comparators.  A record is (numero_doc, tipo_doc, archivo); *)
(* a row is [archivo, documento, tipo, match, score, estado].              *)

OpDocumentos == "documentos.comparar_documentos_pdf_excel"
OpUnidosDoc == "unidos.comparar_documentos_exactos"
OpUnidos2Doc == "unidos2.comparar_documentos_exactos"

FilaDoc(r, match, score, estado) ==
    [archivo |-> r.archivo, documento |-> r.numero, tipo |-> r.tipo,
     match |-> match, score |-> score, estado |-> estado]

\* one iteration of the loop of documentos.comparar_documentos_pdf_excel
documentos_comparar_documentos_pdf_excel ==
    /\ op = OpDocumentos /\ fase = "pdfs" /\ i < Len(documentos_pdf)
    /\ LET r == documentos_pdf[i + 1]
           m == encontrar_mejor_coincidencia(r.numero, disponibles)
       IN  IF r.numero = <<>>
           THEN /\ resultados' = Append(resultados,
                     FilaDoc(r, TextoDocumentoVacio, 0, <<"U+274C DOCUMENTO VACIO">>))
                /\ UNCHANGED disponibles
           ELSE /\ disponibles' = IF m.sim = 100 THEN Remove(disponibles, r.numero)
                                  ELSE disponibles
                /\ resultados' = Append(resultados, FilaDoc(r, m.match, m.sim, m.estado))
    /\ i' = i + 1
    /\ UNCHANGED <<op, texto_pdf, hilos, archivos_no_leidos, documentos_pdf, documentos_excel_raw, documentos_excel, nombres_pdf, nombres_excel,
                   pdfs, fase, estado_doc, score_in>>

\* the loop of unidos.comparar_documentos_exactos with
\* documentos_excel_disponibles = documentos_excel, without .copy(): the two
\* names are one list
unidos_comparar_documentos_exactos_sin_copia ==
    /\ op = OpUnidosDoc /\ fase = "pdfs" /\ i < Len(documentos_pdf)
    /\ LET r == documentos_pdf[i + 1]
           m == MejorDocumento(r.numero, documentos_excel, 1, [sim |-> 0, match |-> <<>>])
       IN  IF r.numero = <<>>
           THEN /\ resultados' = Append(resultados,
                     FilaDoc(r, TextoDocumentoVacio, 0, <<"U+274C DOCUMENTO VACIO">>))
                /\ UNCHANGED <<disponibles, documentos_excel>>
           ELSE IF Index(documentos_excel, r.numero) > 0
           THEN /\ documentos_excel' = Remove(documentos_excel, r.numero)
                /\ disponibles' = documentos_excel'
                /\ resultados' = Append(resultados,
                     FilaDoc(r, r.numero, 100, <<"U+2714 EXACTA">>))
           ELSE /\ resultados' = Append(resultados,
                     FilaDoc(r, m.match, m.sim, estado_documento_unidos(m.sim)))
                /\ UNCHANGED <<disponibles, documentos_excel>>
    /\ i' = i + 1
    /\ UNCHANGED <<op, texto_pdf, hilos, archivos_no_leidos, documentos_pdf, documentos_excel_raw,
                   nombres_pdf, nombres_excel, pdfs, fase, estado_doc, score_in>>

\* one iteration of the loop of unidos.comparar_documentos_exactos
unidos_comparar_documentos_exactos ==
    /\ op = OpUnidosDoc /\ fase = "pdfs" /\ i < Len(documentos_pdf)
    /\ LET r == documentos_pdf[i + 1]
           m == MejorDocumento(r.numero, documentos_excel, 1, [sim |-> 0, match |-> <<>>])
       IN  IF r.numero = <<>>
           THEN /\ resultados' = Append(resultados,
                     FilaDoc(r, TextoDocumentoVacio, 0, <<"U+274C DOCUMENTO VACIO">>))
                /\ UNCHANGED disponibles
           ELSE IF Index(disponibles, r.numero) > 0
           THEN /\ disponibles' = Remove(disponibles, r.numero)
                /\ resultados' = Append(resultados,
                     FilaDoc(r, r.numero, 100, <<"U+2714 EXACTA">>))
           ELSE /\ resultados' = Append(resultados,
                     FilaDoc(r, m.match, m.sim, estado_documento_unidos(m.sim)))
                /\ UNCHANGED disponibles
    /\ i' = i + 1
    /\ UNCHANGED <<op, texto_pdf, hilos, archivos_no_leidos, documentos_pdf, documentos_excel_raw, documentos_excel, nombres_pdf, nombres_excel,
                   pdfs, fase, estado_doc, score_in>>

\* one iteration of the loop of unidos2.comparar_documentos_exactos
unidos2_comparar_documentos_exactos ==
    /\ op = OpUnidos2Doc /\ fase = "pdfs" /\ i < Len(documentos_pdf)
    /\ LET r == documentos_pdf[i + 1]
           m == MejorDocumento(r.numero, documentos_excel, 1, [sim |-> 0, match |-> <<>>])
       IN  IF r.numero = <<>>
           THEN /\ resultados' = Append(resultados,
                     FilaDoc(r, <<>>, 0, <<MSG_DOC_VACIO>>))
                /\ UNCHANGED disponibles
           ELSE IF Index(disponibles, r.numero) > 0
           THEN /\ disponibles' = Remove(disponibles, r.numero)
                /\ resultados' = Append(resultados,
                     FilaDoc(r, r.numero, 100, <<MSG_EXACTA>>))
           ELSE /\ resultados' = Append(resultados,
                     FilaDoc(r, m.match, m.sim, evaluar_similitud(m.sim).estado))
                /\ UNCHANGED disponibles
    /\ i' = i + 1
    /\ UNCHANGED <<op, texto_pdf, hilos, archivos_no_leidos, documentos_pdf, documentos_excel_raw, documentos_excel, nombres_pdf, nombres_excel,
                   pdfs, fase, estado_doc, score_in>>

\* the row of record r and the entries left available after it, in the
\* comparator o with roster excel and available entries disp
PasoDocumento(o, r, excel, disp) ==
    LET m == MejorDocumento(r.numero, excel, 1, [sim |-> 0, match |-> <<>>])
        e == encontrar_mejor_coincidencia(r.numero, disp)
    IN  IF r.numero = <<>>
        THEN [fila |-> IF o = OpUnidos2Doc
                       THEN FilaDoc(r, <<>>, 0, <<MSG_DOC_VACIO>>)
                       ELSE FilaDoc(r, TextoDocumentoVacio, 0, <<"U+274C DOCUMENTO VACIO">>),
              disp |-> disp]
        ELSE IF o = OpDocumentos
        THEN [fila |-> FilaDoc(r, e.match, e.sim, e.estado),
              disp |-> IF e.sim = 100 THEN Remove(disp, r.numero) ELSE disp]
        ELSE IF Index(disp, r.numero) > 0
        THEN [fila |-> FilaDoc(r, r.numero, 100,
                               IF o = OpUnidos2Doc THEN <<MSG_EXACTA>>
                               ELSE <<"U+2714 EXACTA">>),
              disp |-> Remove(disp, r.numero)]
        ELSE [fila |-> FilaDoc(r, m.match, m.sim,
                               IF o = OpUnidos2Doc THEN evaluar_similitud(m.sim).estado
                               ELSE estado_documento_unidos(m.sim)),
              disp |-> disp]

\* the rows a document comparator returns for the records in the order given
RECURSIVE CompararDocumentos(_, _, _, _)
CompararDocumentos(o, registros, excel, disp) ==
    IF registros = <<>> THEN <<>>
    ELSE LET paso == PasoDocumento(o, Head(registros), excel, disp)
         IN  <<paso.fila>> \o CompararDocumentos(o, Tail(registros), excel, paso.disp)

--------------------------------------------------------------------------
(* The name comparators.  A row is [nombre, match, score, estado].         *)

OpMainNom == "main.comparar_nombres_pdf_excel"
OpUnidosNom == "unidos.comparar_nombres_fuzzy"
OpUnidos2Nom == "unidos2.comparar_nombres_fuzzy"

FilaNom(nombre, match, score, estado) ==
    [nombre |-> nombre, match |-> match, score |-> score, estado |-> estado]

\* [normalizar_texto(n) for n in nombres]
Normalizados(nombres) == [k \in 1..Len(nombres) |-> normalizar_texto(nombres[k])]

\* main.py and unidos.py: for i, nombre_excel_norm in enumerate(normalizados):
\*     if not nombre_excel_norm: continue
\*     score = fuzz.ratio(norm, nombre_excel_norm)
\*     if score > mejor_score: mejor_score = score; match = nombres_excel[i]
RECURSIVE MejorNombre(_, _, _, _, _)
MejorNombre(norm, excel, excel_norm, k, mejor) ==
    IF k > Len(excel) THEN mejor
    ELSE LET score == ratio(norm, excel_norm[k])
         IN  MejorNombre(norm, excel, excel_norm, k + 1,
                         IF excel_norm[k] # <<>> /\ score > mejor.score
                         THEN [score |-> score, match |-> excel[k]]
                         ELSE mejor)

\* main.py and unidos.py: the exact lookup by list.index, else the scan
CoincidenciaNombre(norm, excel) ==
    LET excel_norm == Normalizados(excel)
        idx == Index(excel_norm, norm)
    IN  IF idx > 0 THEN [score |-> 100, match |-> excel[idx]]
        ELSE MejorNombre(norm, excel, excel_norm, 1, [score |-> 0, match |-> <<>>])

\* one iteration of the loop of main.comparar_nombres_pdf_excel
main_comparar_nombres_pdf_excel ==
    /\ op = OpMainNom /\ fase = "pdfs" /\ i < Len(nombres_pdf)
    /\ LET original == nombres_pdf[i + 1]
           norm == normalizar_texto(original)
           m == CoincidenciaNombre(norm, nombres_excel)
       IN  resultados' = Append(resultados,
               IF norm = <<>>
               THEN FilaNom(original, TextoNombreVacio, 0, <<"U+274C">>)
               ELSE FilaNom(original, m.match, m.score, estado_nombre_main(m.score)))
    /\ i' = i + 1
    /\ UNCHANGED <<op, texto_pdf, hilos, archivos_no_leidos, documentos_pdf, documentos_excel_raw, documentos_excel, nombres_pdf, nombres_excel,
                   pdfs, fase, disponibles, estado_doc, score_in>>

\* the loop of unidos.comparar_nombres_fuzzy with the empty record skipped
\* by its "continue" before any row is appended
unidos_comparar_nombres_fuzzy_sin_fila ==
    /\ op = OpUnidosNom /\ fase = "pdfs" /\ i < Len(nombres_pdf)
    /\ LET original == nombres_pdf[i + 1]
           norm == normalizar_texto(original)
           m == CoincidenciaNombre(norm, nombres_excel)
       IN  resultados' =
               IF norm = <<>> THEN resultados
               ELSE Append(resultados,
                        FilaNom(original, m.match, m.score, estado_nombre_unidos(m.score)))
    /\ i' = i + 1
    /\ UNCHANGED <<op, texto_pdf, hilos, archivos_no_leidos, documentos_pdf, documentos_excel_raw, documentos_excel, nombres_pdf, nombres_excel,
                   pdfs, fase, disponibles, estado_doc, score_in>>

\* one iteration of the loop of unidos.comparar_nombres_fuzzy
unidos_comparar_nombres_fuzzy ==
    /\ op = OpUnidosNom /\ fase = "pdfs" /\ i < Len(nombres_pdf)
    /\ LET original == nombres_pdf[i + 1]
           norm == normalizar_texto(original)
           m == CoincidenciaNombre(norm, nombres_excel)
       IN  resultados' = Append(resultados,
               IF norm = <<>>
               THEN FilaNom(original, TextoNombreVacio, 0, <<"U+274C">>)
               ELSE FilaNom(original, m.match, m.score, estado_nombre_unidos(m.score)))
    /\ i' = i + 1
    /\ UNCHANGED <<op, texto_pdf, hilos, archivos_no_leidos, documentos_pdf, documentos_excel_raw, documentos_excel, nombres_pdf, nombres_excel,
                   pdfs, fase, disponibles, estado_doc, score_in>>

\* unidos2: for i, nombre_excel in enumerate(nombres_excel):
\*     score = fuzz.token_sort_ratio(norm, nombres_excel_norm[i])
\*     if score > mejor_score: mejor_score = score; mejor_match = nombre_excel
RECURSIVE MejorNombreTokens(_, _, _, _)
MejorNombreTokens(norm, excel, k, mejor) ==
    IF k > Len(excel) THEN mejor
    ELSE LET score == token_sort_ratio(norm, normalizar_texto(excel[k]))
         IN  MejorNombreTokens(norm, excel, k + 1,
                               IF score > mejor.score
                               THEN [score |-> score, match |-> excel[k]]
                               ELSE mejor)

\* the first loop of unidos2.comparar_nombres_fuzzy reporting mejor_score as
\* the scan leaves it, without "if mejor_score >= 0 else 0"
unidos2_comparar_nombres_fuzzy_sin_tope ==
    /\ op = OpUnidos2Nom /\ fase = "pdfs" /\ i < Len(nombres_pdf)
    /\ LET nombre_pdf == nombres_pdf[i + 1]
           m == MejorNombreTokens(normalizar_texto(nombre_pdf), nombres_excel, 1,
                                  [score |-> -1, match |-> <<>>])
       IN  resultados' = Append(resultados,
               FilaNom(nombre_pdf, IF m.match = <<>> THEN Raya ELSE m.match,
                       m.score, evaluar_similitud(m.score).estado))
    /\ i' = i + 1
    /\ UNCHANGED <<op, texto_pdf, hilos, archivos_no_leidos, documentos_pdf, documentos_excel_raw, documentos_excel, nombres_pdf, nombres_excel,
                   pdfs, fase, disponibles, estado_doc, score_in>>

\* one iteration of the first loop of unidos2.comparar_nombres_fuzzy
unidos2_comparar_nombres_fuzzy ==
    /\ op = OpUnidos2Nom /\ fase = "pdfs" /\ i < Len(nombres_pdf)
    /\ LET nombre_pdf == nombres_pdf[i + 1]
           m == MejorNombreTokens(normalizar_texto(nombre_pdf), nombres_excel, 1,
                                  [score |-> -1, match |-> <<>>])
           mejor_score == IF m.score >= 0 THEN m.score ELSE 0
       IN  resultados' = Append(resultados,
               FilaNom(nombre_pdf, IF m.match = <<>> THEN Raya ELSE m.match,
                       mejor_score, evaluar_similitud(mejor_score).estado))
    /\ i' = i + 1
    /\ UNCHANGED <<op, texto_pdf, hilos, archivos_no_leidos, documentos_pdf, documentos_excel_raw, documentos_excel, nombres_pdf, nombres_excel,
                   pdfs, fase, disponibles, estado_doc, score_in>>

\* any(fuzz.token_sort_ratio(nombre_excel_norm, normalizar_texto(n)) >= UMBRAL_ALTA
\*     for n in nombres_pdf)
TieneCertificado(nombre_excel_norm, nombres) ==
    \E k \in 1..Len(nombres) :
        token_sort_ratio(nombre_excel_norm, normalizar_texto(nombres[k])) >= UMBRAL_ALTA

\* the second loop of unidos2.comparar_nombres_fuzzy run over the roster from
\* its last entry to its first
unidos2_falta_certificado_al_reves ==
    /\ op = OpUnidos2Nom /\ fase = "excel" /\ i < Len(nombres_excel)
    /\ LET nombre_excel == nombres_excel[Len(nombres_excel) - i]
       IN  resultados' =
               IF TieneCertificado(normalizar_texto(nombre_excel), nombres_pdf)
               THEN resultados
               ELSE Append(resultados,
                           FilaNom(Raya, nombre_excel, 0, <<"FALTA CERTIFICADO">>))
    /\ i' = i + 1
    /\ UNCHANGED <<op, texto_pdf, hilos, archivos_no_leidos, documentos_pdf, documentos_excel_raw, documentos_excel, nombres_pdf, nombres_excel,
                   pdfs, fase, disponibles, estado_doc, score_in>>

\* one iteration of the second loop of unidos2.comparar_nombres_fuzzy
unidos2_falta_certificado ==
    /\ op = OpUnidos2Nom /\ fase = "excel" /\ i < Len(nombres_excel)
    /\ LET nombre_excel == nombres_excel[i + 1]
       IN  resultados' =
               IF TieneCertificado(normalizar_texto(nombre_excel), nombres_pdf)
               THEN resultados
               ELSE Append(resultados,
                           FilaNom(Raya, nombre_excel, 0, <<"FALTA CERTIFICADO">>))
    /\ i' = i + 1
    /\ UNCHANGED <<op, texto_pdf, hilos, archivos_no_leidos, documentos_pdf, documentos_excel_raw, documentos_excel, nombres_pdf, nombres_excel,
                   pdfs, fase, disponibles, estado_doc, score_in>>

--------------------------------------------------------------------------
(* Full validation.  A PDF yields an extracted name and an extracted       *)
(* document number; the empty text stands for "nothing extracted" (None    *)
(* and "" are tested alike, by truth value).  A row is [archivo, nombre,   *)
(* mejor_nombre, sim_nombre, estado_nombre, documento, tipo, mejor_doc,    *)
(* sim_doc, estado_doc].                                                   *)

OpUnidosVal == "unidos.validacion_completa"
OpUnidos2Val == "unidos2.procesar_validacion_completa"

\* the text "NO EXTRAIDO" with its accented I
MSG_NO_EXTRAIDO == <<"N", "O", " ", "E", "X", "T", "R", "A", "U+00CD", "D", "O">>

\* a PDF is named by its position in the folder; 0 names no PDF, where the
\* rows of the second loop read "(U+2014) SIN PDF (U+2014)"
SinPdf == 0

EstadoNoExtraido == <<"U+274C NO EXTRA(U+00CD)DO">>
EstadoNoExiste == <<"U+274C NO EXISTE EN EL REPORTE DE INSCRIPCI(U+00D3)N">>
EstadoNoTieneCertificado == <<"U+274C NO TIENE CERTIFICADO">>

\* the value of a local variable no assignment has reached
SinAsignar == <<>>

FilaVal(p, nombre, mejor_nombre, sim_nombre, estado_nombre, documento, mejor_doc, sim_doc, estado_documento) ==
    [archivo |-> p.archivo, nombre |-> nombre, mejor_nombre |-> mejor_nombre,
     sim_nombre |-> sim_nombre, estado_nombre |-> estado_nombre,
     documento |-> documento,
     tipo |-> IF p.numero = <<>> THEN "NO IDENTIFICADO" ELSE p.tipo,
     mejor_doc |-> mejor_doc, sim_doc |-> sim_doc, estado_doc |-> estado_documento]

\* unidos.validacion_completa, "Validar nombre"
ValidarNombreUnidos(nombre_extraido) ==
    LET excel_norm == Normalizados(nombres_excel)
        norm == normalizar_texto(nombre_extraido)
        idx == Index(excel_norm, norm)
        m == MejorNombre(norm, nombres_excel, excel_norm, 1,
                         [score |-> 0, match |-> <<>>])
    IN  IF nombre_extraido = <<>>
        THEN [match |-> <<>>, score |-> 0, estado |-> EstadoNoExtraido]
        ELSE IF idx > 0
        THEN [match |-> nombres_excel[idx], score |-> 100, estado |-> <<"U+2714 EXACTA">>]
        ELSE [match |-> m.match, score |-> m.score,
              estado |-> estado_documento_unidos(m.score)]

\* unidos.validacion_completa, "Validar documento"
ValidarDocumentoUnidos(numero_doc) ==
    LET m == MejorDocumento(numero_doc, documentos_excel, 1, [sim |-> 0, match |-> <<>>])
    IN  IF numero_doc = <<>>
        THEN [match |-> <<>>, score |-> 0, estado |-> EstadoNoExtraido]
        ELSE IF Index(documentos_excel, numero_doc) > 0
        THEN [match |-> numero_doc, score |-> 100, estado |-> <<"U+2714 EXACTA">>]
        ELSE [match |-> m.match, score |-> m.sim,
              estado |-> estado_documento_unidos(m.sim)]

\* one iteration of the loop of unidos.ValidadorUnificado.validacion_completa
unidos_validacion_completa ==
    /\ op = OpUnidosVal /\ fase = "pdfs" /\ i < Len(pdfs)
    /\ LET p == pdfs[i + 1]
           n == ValidarNombreUnidos(p.nombre)
           d == ValidarDocumentoUnidos(p.numero)
       IN  resultados' = Append(resultados,
               FilaVal(p, IF p.nombre = <<>> THEN MSG_NO_EXTRAIDO ELSE p.nombre,
                       n.match, n.score, n.estado,
                       IF p.numero = <<>> THEN MSG_NO_EXTRAIDO ELSE p.numero,
                       d.match, d.score, d.estado))
    /\ i' = i + 1
    /\ UNCHANGED <<op, texto_pdf, hilos, archivos_no_leidos, documentos_pdf, documentos_excel_raw, documentos_excel, nombres_pdf, nombres_excel,
                   pdfs, fase, disponibles, estado_doc, score_in>>

\* unidos2: for i, ne_norm in enumerate(nombres_excel_norm):
\*     s = fuzz.ratio(nombre_norm, ne_norm)
\*     if s > sim_nombre: sim_nombre = s; mejor_nombre = nombres_excel[i]
RECURSIVE MejorNombreTodos(_, _, _, _, _)
MejorNombreTodos(norm, excel, excel_norm, k, mejor) ==
    IF k > Len(excel) THEN mejor
    ELSE LET score == ratio(norm, excel_norm[k])
         IN  MejorNombreTodos(norm, excel, excel_norm, k + 1,
                              IF score > mejor.score
                              THEN [score |-> score, match |-> excel[k]]
                              ELSE mejor)

\* unidos2.procesar_validacion_completa, "Comparar nombre"
CompararNombreUnidos2(nombre_extraido) ==
    LET excel_norm == Normalizados(nombres_excel)
        norm == normalizar_texto(nombre_extraido)
        idx == Index(excel_norm, norm)
    IN  IF nombre_extraido = MSG_NO_EXTRAIDO THEN [match |-> <<>>, score |-> 0]
        ELSE IF idx > 0 THEN [match |-> nombres_excel[idx], score |-> 100]
        ELSE MejorNombreTodos(norm, nombres_excel, excel_norm, 1,
                              [score |-> 0, match |-> <<>>])

\* unidos2.procesar_validacion_completa, "Comparar documento"
CompararDocumentoUnidos2(num_extraido) ==
    LET m == MejorDocumento(num_extraido, documentos_excel, 1, [sim |-> 0, match |-> <<>>])
    IN  IF Index(documentos_excel, num_extraido) > 0
        THEN [match |-> num_extraido, score |-> 100]
        ELSE [match |-> m.match, score |-> m.sim]

\* unidos2.procesar_validacion_completa: estado_nombre of the PDF p
EstadoNombreUnidos2(p) ==
    LET n == CompararNombreUnidos2(IF p.nombre = <<>> THEN MSG_NO_EXTRAIDO ELSE p.nombre)
    IN  IF p.numero # <<>> /\ n.score < 50 THEN EstadoNoExiste
        ELSE evaluar_similitud(n.score).estado

\* unidos2.procesar_validacion_completa: estado_doc after the iteration of a
\* PDF with the number num_extraido, when it held previo before
EstadoDocUnidos2(num_extraido, previo) ==
    LET d == CompararDocumentoUnidos2(num_extraido)
    IN  IF num_extraido = <<>> THEN previo
        ELSE IF d.score < 50 THEN EstadoNoExiste
        ELSE evaluar_similitud(d.score).estado

\* the run has raised
Fallo == <<"error">>

\* estado_doc after the iterations of the PDFs ps, from previo; Fallo when one
\* of them reads it unassigned
RECURSIVE EstadoDocTras(_, _)
EstadoDocTras(ps, previo) ==
    IF ps = <<>> THEN previo
    ELSE LET e == EstadoDocUnidos2(Head(ps).numero, previo)
         IN  IF e = SinAsignar THEN Fallo ELSE EstadoDocTras(Tail(ps), e)

\* one iteration of the first loop of unidos2.procesar_validacion_completa.
\* estado_doc is assigned only when a number was extracted: otherwise the row
\* is built from the value an earlier iteration left, and when there is none
\* the read raises (UnboundLocalError) and ends the run.
unidos2_procesar_validacion_completa ==
    /\ op = OpUnidos2Val /\ fase = "pdfs" /\ i < Len(pdfs)
    /\ LET p == pdfs[i + 1]
           nombre_extraido == IF p.nombre = <<>> THEN MSG_NO_EXTRAIDO ELSE p.nombre
           n == CompararNombreUnidos2(nombre_extraido)
           d == CompararDocumentoUnidos2(p.numero)
           hay == p.numero # <<>>
           estado_nombre == IF hay /\ n.score < 50 THEN EstadoNoExiste
                            ELSE evaluar_similitud(n.score).estado
           mejor_nombre == IF hay /\ n.score < 50 THEN <<>> ELSE n.match
           sim_doc == IF hay THEN d.score ELSE 0
           mejor_doc == IF hay /\ d.score >= 50 THEN d.match ELSE <<>>
           nuevo_estado == IF ~hay THEN estado_doc
                           ELSE IF d.score < 50 THEN EstadoNoExiste
                           ELSE evaluar_similitud(d.score).estado
       IN  IF nuevo_estado = SinAsignar
           THEN /\ fase' = "error"
                /\ UNCHANGED <<resultados, estado_doc, i>>
           ELSE /\ resultados' = Append(resultados,
                       FilaVal(p, nombre_extraido, mejor_nombre, n.score, estado_nombre,
                               IF hay THEN p.numero ELSE MSG_NO_EXTRAIDO,
                               mejor_doc, sim_doc, nuevo_estado))
                /\ estado_doc' = nuevo_estado
                /\ i' = i + 1
                /\ UNCHANGED fase
    /\ UNCHANGED <<op, texto_pdf, hilos, archivos_no_leidos, documentos_pdf, documentos_excel_raw, documentos_excel, nombres_pdf, nombres_excel,
                   pdfs, disponibles, score_in>>

\* one iteration of the second loop of unidos2.procesar_validacion_completa.
\* The row of a roster entry without document reads MSG_NO_EXTRA(U+00CD)DO, a
\* name the module never defines: the read raises (NameError) and ends the run.
unidos2_no_tiene_certificado ==
    /\ op = OpUnidos2Val /\ fase = "excel" /\ i < Len(nombres_excel)
    /\ LET nombre == nombres_excel[i + 1]
           filas == SubSeq(resultados, 1, Len(pdfs))
           pdf_nombres_norm == [k \in 1..Len(filas) |-> normalizar_texto(filas[k].nombre)]
           pdf_docs == [k \in 1..Len(filas) |-> filas[k].documento]
           documento_excel == IF i + 1 <= Len(documentos_excel)
                              THEN documentos_excel[i + 1] ELSE <<>>
           falta_nombre == Index(pdf_nombres_norm, normalizar_texto(nombre)) = 0
           falta_doc == IF documento_excel # <<>>
                        THEN Index(pdf_docs, documento_excel) = 0 ELSE TRUE
       IN  IF ~(falta_nombre \/ falta_doc)
           THEN /\ i' = i + 1
                /\ UNCHANGED <<resultados, fase>>
           ELSE IF documento_excel = <<>>
           THEN /\ fase' = "error"
                /\ UNCHANGED <<resultados, i>>
           ELSE /\ resultados' = Append(resultados,
                       [archivo |-> SinPdf, nombre |-> MSG_NO_EXTRAIDO,
                        mejor_nombre |-> nombre, sim_nombre |-> 0,
                        estado_nombre |-> EstadoNoTieneCertificado,
                        documento |-> documento_excel, tipo |-> "NO IDENTIFICADO",
                        mejor_doc |-> documento_excel, sim_doc |-> 0,
                        estado_doc |-> EstadoNoTieneCertificado])
                /\ i' = i + 1
                /\ UNCHANGED fase
    /\ UNCHANGED <<op, texto_pdf, hilos, archivos_no_leidos, documentos_pdf, documentos_excel_raw, documentos_excel, nombres_pdf, nombres_excel,
                   pdfs, disponibles, estado_doc, score_in>>

--------------------------------------------------------------------------
(* The classifier alone: evaluar_similitud and the if/elif chain of        *)
(* unidos.comparar_nombres_fuzzy applied to one score.                     *)

OpEvaluar == "unidos2.evaluar_similitud"

clasificar ==
    /\ op = OpEvaluar /\ fase = "pdfs"
    /\ resultados' = <<[score |-> score_in,
                        estado |-> evaluar_similitud(score_in).estado,
                        fill |-> evaluar_similitud(score_in).fill,
                        estado_unidos |-> estado_nombre_unidos(score_in)]>>
    /\ fase' = "fin"
    /\ UNCHANGED <<op, texto_pdf, hilos, archivos_no_leidos, documentos_pdf, documentos_excel_raw, documentos_excel, nombres_pdf, nombres_excel,
                   pdfs, i, disponibles, estado_doc, score_in>>

--------------------------------------------------------------------------
(* Extraction.  The text of a PDF is given by what each pattern finds in   *)
(* it: the capture (match.group(1)) or nothing (re.search returns None).   *)

\* None: the pattern does not match, the function returns no value
SinMatch == <<"None">>

\* the rotation with the first half one token longer when the count is odd
invertir_nombre_mitad_mayor(nombre) ==
    LET partes == Split(Strip(nombre))
        mitad == (Len(partes) + 1) \div 2
    IN  IF Len(partes) >= 2
        THEN Join(SubSeq(partes, mitad + 1, Len(partes)) \o SubSeq(partes, 1, mitad))
        ELSE nombre

\* unidos2.invertir_nombre_si_correspondiente (main.py, unidos.py: invertir_nombre)
invertir_nombre_si_correspondiente(nombre) ==
    LET partes == Split(Strip(nombre))
        mitad == Len(partes) \div 2
    IN  IF Len(partes) >= 2
        THEN Join(SubSeq(partes, mitad + 1, Len(partes)) \o SubSeq(partes, 1, mitad))
        ELSE nombre

\* the name extractor with PATRON_REGISTRO_CIVIL tried before the others
extraer_nombre_registro_primero(t) ==
    IF t.registro # SinMatch
    THEN invertir_nombre_si_correspondiente(Strip(t.registro))
    ELSE IF t.general # SinMatch THEN Strip(t.general)
    ELSE IF t.migracion # SinMatch THEN Strip(t.migracion)
    ELSE SinMatch

\* unidos2.extraer_nombre_desde_texto
extraer_nombre_desde_texto(t) ==
    IF t.general # SinMatch THEN Strip(t.general)
    ELSE IF t.registro # SinMatch
    THEN invertir_nombre_si_correspondiente(Strip(t.registro))
    ELSE IF t.migracion # SinMatch THEN Strip(t.migracion)
    ELSE SinMatch

\* unidos2.extraer_documento_desde_texto
extraer_documento_desde_texto(t) ==
    IF t.cedula # SinMatch
    THEN [numero |-> normalizar_documento(t.cedula), tipo |-> "CEDULA_ADULTO"]
    ELSE IF t.nuip # SinMatch
    THEN [numero |-> normalizar_documento(t.nuip), tipo |-> "NUIP_MENOR"]
    ELSE IF t.rumv # SinMatch
    THEN [numero |-> normalizar_documento(t.rumv), tipo |-> "RUMV_PPT"]
    ELSE [numero |-> SinMatch, tipo |-> "None"]

OpExtraer == "unidos2.extraer_desde_texto"

\* nombre = extraer_nombre_desde_texto(texto_pdf);
\* num, tipo = extraer_documento_desde_texto(texto_pdf)
extraer ==
    /\ op = OpExtraer /\ fase = "pdfs"
    /\ resultados' = <<[nombre |-> extraer_nombre_desde_texto(texto_pdf),
                        numero |-> extraer_documento_desde_texto(texto_pdf).numero,
                        tipo |-> extraer_documento_desde_texto(texto_pdf).tipo]>>
    /\ fase' = "fin"
    /\ UNCHANGED <<op, texto_pdf, hilos, archivos_no_leidos, documentos_pdf, documentos_excel_raw, documentos_excel,
                   nombres_pdf, nombres_excel, pdfs, i, disponibles, estado_doc,
                   score_in>>

OpInvertir == "unidos2.invertir_nombre_si_correspondiente"

\* the name written with its tokens: separador between them, margen around
Escribir(t) ==
    LET entre == [k \in 1..Len(t.partes) |->
                     IF k = 1 THEN t.partes[k] ELSE t.separador \o t.partes[k]]
    IN  t.margen \o Concat(entre) \o t.margen

invertir ==
    /\ op = OpInvertir /\ fase = "pdfs"
    /\ resultados' = <<[nombre |-> Escribir(texto_pdf),
                        invertido |-> invertir_nombre_si_correspondiente(Escribir(texto_pdf))]>>
    /\ fase' = "fin"
    /\ UNCHANGED <<op, texto_pdf, hilos, archivos_no_leidos, documentos_pdf, documentos_excel_raw, documentos_excel,
                   nombres_pdf, nombres_excel, pdfs, i, disponibles, estado_doc,
                   score_in>>

OpNormalizar == "unidos2.normalizar_texto, unidos2.normalizar_documento"

\* one pass of the two normalizers: over the text read, then over their own
\* results
normalizar ==
    /\ op = OpNormalizar /\ fase = "pdfs"
    /\ LET entrada == IF resultados = <<>>
                      THEN [texto |-> texto_pdf, documento |-> texto_pdf]
                      ELSE resultados[Len(resultados)]
       IN  resultados' =
               Append(resultados,
                      [texto |-> normalizar_texto(entrada.texto),
                       documento |-> normalizar_documento(entrada.documento)])
    /\ fase' = IF resultados = <<>> THEN "pdfs" ELSE "fin"
    /\ UNCHANGED <<op, texto_pdf, hilos, archivos_no_leidos, documentos_pdf, documentos_excel_raw, documentos_excel,
                   nombres_pdf, nombres_excel, pdfs, i, disponibles, estado_doc,
                   score_in>>

--------------------------------------------------------------------------
(* Export.  The exporters choose the fill of a row by looking for words in *)
(* the text of its status cell.                                            *)

\* the status messages of the model
Mensajes ==
    {"U+2714 EXACTA", "U+2714", "U+26A0 ALTA", "U+26A0 MEDIA",
     "U+26A0 BAJA", "U+26A0 ALTA SIMILITUD", "U+26A0 MEDIA SIMILITUD",
     "U+26A0 BAJA SIMILITUD", "U+274C SIN COINCIDENCIA",
     "U+274C DOCUMENTO VACIO", "DOCUMENTO VACIO", "U+274C",
     "FALTA CERTIFICADO", "U+274C NO EXTRA(U+00CD)DO",
     "U+274C NO EXISTE EN EL REPORTE DE INSCRIPCI(U+00D3)N",
     "U+274C NO TIENE CERTIFICADO"}

\* the characters of a status message
LetrasDeTabla ==
    [e \in Mensajes |->
        CASE
        e = "U+2714 EXACTA" ->
            <<"U+2714", " ", "E", "X", "A", "C", "T", "A">>
    []  e = "U+2714" ->
            <<"U+2714">>
    []  e = "U+26A0 ALTA" ->
            <<"U+26A0", "U+FE0F", " ", "A", "L", "T", "A">>
    []  e = "U+26A0 MEDIA" ->
            <<"U+26A0", "U+FE0F", " ", "M", "E", "D", "I", "A">>
    []  e = "U+26A0 BAJA" ->
            <<"U+26A0", "U+FE0F", " ", "B", "A", "J", "A">>
    []  e = "U+26A0 ALTA SIMILITUD" ->
            <<"U+26A0", "U+FE0F", " ", "A", "L", "T", "A", " ", "S", "I",
              "M", "I", "L", "I", "T", "U", "D">>
    []  e = "U+26A0 MEDIA SIMILITUD" ->
            <<"U+26A0", "U+FE0F", " ", "M", "E", "D", "I", "A", " ", "S",
              "I", "M", "I", "L", "I", "T", "U", "D">>
    []  e = "U+26A0 BAJA SIMILITUD" ->
            <<"U+26A0", "U+FE0F", " ", "B", "A", "J", "A", " ", "S", "I",
              "M", "I", "L", "I", "T", "U", "D">>
    []  e = "U+274C SIN COINCIDENCIA" ->
            <<"U+274C", " ", "S", "I", "N", " ", "C", "O", "I", "N", "C",
              "I", "D", "E", "N", "C", "I", "A">>
    []  e = "U+274C DOCUMENTO VACIO" ->
            <<"U+274C", " ", "D", "O", "C", "U", "M", "E", "N", "T", "O",
              " ", "V", "A", "C", "I", "O">>
    []  e = "DOCUMENTO VACIO" ->
            <<"D", "O", "C", "U", "M", "E", "N", "T", "O", " ", "V", "A",
              "C", "I", "O">>
    []  e = "U+274C" ->
            <<"U+274C">>
    []  e = "FALTA CERTIFICADO" ->
            <<"F", "A", "L", "T", "A", " ", "C", "E", "R", "T", "I", "F",
              "I", "C", "A", "D", "O">>
    []  e = "U+274C NO EXTRA(U+00CD)DO" ->
            <<"U+274C", " ", "N", "O", " ", "E", "X", "T", "R", "A",
              "U+00CD", "D", "O">>
    []  e = "U+274C NO EXISTE EN EL REPORTE DE INSCRIPCI(U+00D3)N" ->
            <<"U+274C", " ", "N", "O", " ", "E", "X", "I", "S", "T", "E",
              " ", "E", "N", " ", "E", "L", " ", "R", "E", "P", "O", "R",
              "T", "E", " ", "D", "E", " ", "I", "N", "S", "C", "R", "I",
              "P", "C", "I", "U+00D3", "N">>
    []  e = "U+274C NO TIENE CERTIFICADO" ->
            <<"U+274C", " ", "N", "O", " ", "T", "I", "E", "N", "E", " ",
              "C", "E", "R", "T", "I", "F", "I", "C", "A", "D", "O">>]

LetrasDe(e) == LetrasDeTabla[e]

\* str(n) of a natural number
RECURSIVE Decimal(_)
Decimal(n) ==
    IF n < 10 THEN <<Cifras[n + 1]>>
    ELSE Decimal(n \div 10) \o <<Cifras[(n % 10) + 1]>>

\* the text of a status cell: the message, then " (score%)" where the
\* status carries its score
TextoDeEstado(estado) ==
    LetrasDe(estado[1]) \o
        (IF Len(estado) > 1
         THEN <<" ", "(">> \o Decimal(estado[2]) \o <<"%", ")">>
         ELSE <<>>)

\* sub in s, of Python strings
Contiene(sub, s) ==
    \E k \in 0..(Len(s) - Len(sub)) : SubSeq(s, k + 1, k + Len(sub)) = sub

EXACTA == <<"E", "X", "A", "C", "T", "A">>
ALTA == <<"A", "L", "T", "A">>
MEDIA == <<"M", "E", "D", "I", "A">>
BAJA == <<"B", "A", "J", "A">>
SIMILITUD == <<"S", "I", "M", "I", "L", "I", "T", "U", "D">>

\* unidos2._aplicar_color_por_estado, the if/elif chain on estado_val
aplicar_color_por_estado(estado_val) ==
    IF Contiene(EXACTA, estado_val) THEN "FILL_VERDE"
    ELSE IF Contiene(ALTA, estado_val) \/ Contiene(MEDIA, estado_val) THEN "FILL_AMARILLO"
    ELSE IF Contiene(BAJA, estado_val) THEN "FILL_AZUL"
    ELSE "FILL_ROJO"

\* unidos.exportar_resultados_nombres, _documentos, _completos: the same chain
unidos_fill_color(estado_celda) ==
    IF Contiene(EXACTA, estado_celda) THEN "FILL_VERDE"
    ELSE IF Contiene(ALTA, estado_celda) \/ Contiene(MEDIA, estado_celda) THEN "FILL_AMARILLO"
    ELSE IF Contiene(BAJA, estado_celda) THEN "FILL_AZUL"
    ELSE "FILL_ROJO"

\* documentos.exportar_resultados_a_excel_con_colores
documentos_fill_color(estado_celda) ==
    IF Contiene(EXACTA, estado_celda) THEN "FILL_VERDE"
    ELSE IF Contiene(SIMILITUD, estado_celda) THEN "FILL_AMARILLO"
    ELSE "FILL_ROJO"

\* documentos.encontrar_mejor_coincidencia, the if/elif chain on mejor_similitud
estado_documentos(mejor_similitud) ==
    IF mejor_similitud >= 90 THEN <<"U+26A0 ALTA SIMILITUD">>
    ELSE IF mejor_similitud >= 70 THEN <<"U+26A0 MEDIA SIMILITUD">>
    ELSE IF mejor_similitud >= 50 THEN <<"U+26A0 BAJA SIMILITUD">>
    ELSE <<"U+274C SIN COINCIDENCIA">>

OpExportarDocumentos == "documentos.exportar_resultados_a_excel_con_colores"
OpExportarUnidos == "unidos.exportar_resultados"
OpExportarUnidos2 == "unidos2.exportar_dataframe_con_formato"

FilaExp(score, estado) == [score |-> score, estado |-> estado]

\* the rows the comparisons of a script hand to its exporter, by score and
\* status
FilasExportables(o) ==
    IF o = OpExportarDocumentos
    THEN {FilaExp(sc, estado_documentos(sc)) : sc \in 0..100}
             \cup {FilaExp(100, <<"U+2714 EXACTA">>),
                   FilaExp(0, <<"U+274C DOCUMENTO VACIO">>)}
    ELSE IF o = OpExportarUnidos
    THEN {FilaExp(sc, estado_nombre_unidos(sc)) : sc \in 0..100}
             \cup {FilaExp(sc, estado_documento_unidos(sc)) : sc \in 0..100}
             \cup {FilaExp(0, <<"U+274C">>), FilaExp(0, <<"U+274C DOCUMENTO VACIO">>),
                   FilaExp(0, EstadoNoExtraido)}
    ELSE {FilaExp(sc, evaluar_similitud(sc).estado) : sc \in 0..100}
             \cup {FilaExp(0, <<MSG_DOC_VACIO>>), FilaExp(0, <<"FALTA CERTIFICADO">>),
                   FilaExp(0, EstadoNoExiste), FilaExp(0, EstadoNoTieneCertificado)}

\* the loop over the rows of the sheet, for the one row exported
exportar ==
    /\ op \in {OpExportarDocumentos, OpExportarUnidos, OpExportarUnidos2}
    /\ fase = "pdfs"
    /\ LET fila == resultados[1]
           estado_val == TextoDeEstado(fila.estado)
           fill == IF op = OpExportarDocumentos THEN documentos_fill_color(estado_val)
                   ELSE IF op = OpExportarUnidos THEN unidos_fill_color(estado_val)
                   ELSE aplicar_color_por_estado(estado_val)
       IN  resultados' = <<[score |-> fila.score, estado |-> fila.estado,
                            texto |-> estado_val, fill |-> fill]>>
    /\ fase' = "fin"
    /\ UNCHANGED <<op, texto_pdf, hilos, archivos_no_leidos, documentos_pdf, documentos_excel_raw,
                   documentos_excel, nombres_pdf, nombres_excel, pdfs, i, disponibles,
                   estado_doc, score_in>>

--------------------------------------------------------------------------
(* Reading the folder.  pdfs is what the extractors get out of each PDF of *)
(* the folder, in the order of enumeration; the empty text stands for a    *)
(* value the extractor did not find (None and "" are tested alike).        *)

OpDocumentosCarpeta == "documentos._procesar_carpeta_pdfs"
OpMainCarpeta == "main._procesar_carpeta_pdfs"
OpUnidosCarpeta == "unidos.comparar_nombres"
OpUnidos2Carpeta == "unidos2.procesar_comparar_nombres"

\* one iteration of the loop of documentos._procesar_carpeta_pdfs
documentos_procesar_carpeta_pdfs ==
    /\ op = OpDocumentosCarpeta /\ fase = "pdfs" /\ i < Len(pdfs)
    /\ LET item == pdfs[i + 1]
       IN  IF item.numero # <<>> /\ item.tipo # "None"
           THEN /\ documentos_pdf' = Append(documentos_pdf,
                        [numero |-> item.numero, tipo |-> item.tipo,
                         archivo |-> item.archivo])
                /\ UNCHANGED archivos_no_leidos
           ELSE /\ archivos_no_leidos' = Append(archivos_no_leidos, item.archivo)
                /\ UNCHANGED documentos_pdf
    /\ i' = i + 1
    /\ UNCHANGED <<op, texto_pdf, hilos, documentos_excel_raw, documentos_excel, nombres_pdf,
                   nombres_excel, pdfs, fase, disponibles, resultados, estado_doc,
                   score_in>>

\* one iteration of the loop of main._procesar_carpeta_pdfs
main_procesar_carpeta_pdfs ==
    /\ op = OpMainCarpeta /\ fase = "pdfs" /\ i < Len(pdfs)
    /\ LET item == pdfs[i + 1]
       IN  IF item.nombre # <<>>
           THEN /\ nombres_pdf' = Append(nombres_pdf, item.nombre)
                /\ UNCHANGED archivos_no_leidos
           ELSE /\ archivos_no_leidos' = Append(archivos_no_leidos, item.archivo)
                /\ UNCHANGED nombres_pdf
    /\ i' = i + 1
    /\ UNCHANGED <<op, texto_pdf, hilos, documentos_pdf, documentos_excel_raw, documentos_excel,
                   nombres_excel, pdfs, fase, disponibles, resultados, estado_doc,
                   score_in>>

\* one iteration of the folder loop of unidos.py's comparar_nombres: "if
\* nombre:" has no else
unidos_comparar_nombres ==
    /\ op = OpUnidosCarpeta /\ fase = "pdfs" /\ i < Len(pdfs)
    /\ LET item == pdfs[i + 1]
       IN  nombres_pdf' = IF item.nombre # <<>> THEN Append(nombres_pdf, item.nombre)
                          ELSE nombres_pdf
    /\ i' = i + 1
    /\ UNCHANGED <<op, texto_pdf, hilos, archivos_no_leidos, documentos_pdf, documentos_excel_raw,
                   documentos_excel, nombres_excel, pdfs, fase, disponibles,
                   resultados, estado_doc, score_in>>

\* one iteration of the folder loop of unidos2.procesar_comparar_nombres
unidos2_procesar_comparar_nombres ==
    /\ op = OpUnidos2Carpeta /\ fase = "pdfs" /\ i < Len(pdfs)
    /\ LET item == pdfs[i + 1]
       IN  nombres_pdf' = IF item.nombre # <<>> THEN Append(nombres_pdf, item.nombre)
                          ELSE nombres_pdf
    /\ i' = i + 1
    /\ UNCHANGED <<op, texto_pdf, hilos, archivos_no_leidos, documentos_pdf, documentos_excel_raw,
                   documentos_excel, nombres_excel, pdfs, fase, disponibles,
                   resultados, estado_doc, score_in>>

--------------------------------------------------------------------------
(* Loop exits.                                                             *)

\* the list the first loop of the operation runs over
Registros ==
    IF op \in {OpDocumentos, OpUnidosDoc, OpUnidos2Doc} THEN documentos_pdf
    ELSE IF op \in {OpMainNom, OpUnidosNom, OpUnidos2Nom} THEN nombres_pdf
    ELSE pdfs

\* unidos2: the first loop is exhausted, the loop over the roster starts
pasar_a_excel ==
    /\ op \in {OpUnidos2Nom, OpUnidos2Val}
    /\ fase = "pdfs" /\ i = Len(Registros)
    /\ fase' = "excel" /\ i' = 0
    /\ UNCHANGED <<op, texto_pdf, hilos, archivos_no_leidos, documentos_pdf, documentos_excel_raw, documentos_excel, nombres_pdf, nombres_excel,
                   pdfs, disponibles, resultados, estado_doc, score_in>>

\* return resultados
retornar ==
    /\ \/ /\ op \in {OpUnidos2Nom, OpUnidos2Val}
          /\ fase = "excel" /\ i = Len(nombres_excel)
       \/ /\ op \in {OpDocumentos, OpUnidosDoc, OpUnidos2Doc,
                      OpMainNom, OpUnidosNom, OpUnidosVal,
                      OpDocumentosCarpeta, OpMainCarpeta, OpUnidosCarpeta,
                      OpUnidos2Carpeta}
          /\ fase = "pdfs" /\ i = Len(Registros)
    /\ fase' = "fin"
    /\ UNCHANGED <<op, texto_pdf, hilos, archivos_no_leidos, documentos_pdf, documentos_excel_raw, documentos_excel, nombres_pdf, nombres_excel,
                   pdfs, i, disponibles, resultados, estado_doc, score_in>>

--------------------------------------------------------------------------
(* Inputs.                                                                 *)

ANA_LOPEZ == <<"A", "N", "A", " ", "L", "O", "P", "E", "Z">>
LOPEZ_ANA == <<"L", "O", "P", "E", "Z", " ", "A", "N", "A">>
Ana_Lopez == <<"A", "n", "a", " ", "L", "U+00F3", "p", "e", "z">>
ANA_LOPE == <<"A", "N", "A", " ", "L", "O", "P", "E">>
CARLOS_RUIZ == <<"C", "A", "R", "L", "O", "S", " ", "R", "U", "I", "Z">>
RUIZ_CARLOS == <<"R", "U", "I", "Z", " ", "C", "A", "R", "L", "O", "S">>
SoloDigitos == <<"1", "2">>

D123 == <<"1", "2", "3">>
D124 == <<"1", "2", "4">>
D7 == <<"7">>
D12 == <<"1", "2">>
D1_23 == <<"1", ".", "2", "3">>
SinDigitos == <<"N", "/", "A">>

\* the missing cell of a sheet (pandas reads it as NaN and dropna() drops it)
NaN == <<"NaN">>

DocumentosPdfValores == {<<>>, D123, D124, D12}
\* the cells of the document column, as written in the sheet
DocumentosExcelCrudos == {SinDigitos, D1_23, D124, D7}
DocumentosExcelValores == {normalizar_documento(d) : d \in DocumentosExcelCrudos}
NombresPdfValores == {SoloDigitos, ANA_LOPEZ, ANA_LOPE}
NombresExcelValores == {ANA_LOPEZ, Ana_Lopez, LOPEZ_ANA, CARLOS_RUIZ}

\* what the extractors get out of one PDF: name and document number
PdfValores ==
    { [nombre |-> ANA_LOPEZ, numero |-> D123],
      [nombre |-> <<>>, numero |-> D123],
      [nombre |-> ANA_LOPE, numero |-> <<>>],
      [nombre |-> SoloDigitos, numero |-> D124] }

\* the rows of the sheet: name cell and document cell
FilasExcelValores ==
    { [nombre |-> ANA_LOPEZ, documento |-> D123],
      [nombre |-> CARLOS_RUIZ, documento |-> NaN],
      [nombre |-> SoloDigitos, documento |-> SinDigitos] }

\* leer_columna_excel: the cells of one column, the missing ones dropped
leer_columna_excel(celdas) == SelectSeq(celdas, LAMBDA c : c # NaN)

\* the tuples (numero_doc, tipo_doc, archivo) of the PDFs of a folder
DocumentosDe(numeros) ==
    [k \in 1..Len(numeros) |->
        [numero |-> numeros[k], tipo |-> "CEDULA_ADULTO", archivo |-> k]]

PdfsDe(ps) ==
    [k \in 1..Len(ps) |->
        [nombre |-> ps[k].nombre, numero |-> ps[k].numero,
         tipo |-> "CEDULA_ADULTO", archivo |-> k]]

\* The GUI of unidos.py and unidos2.py.  Each press of "Comparar Documentos"
\* starts a daemon thread; the folder, the roster, the copy of the roster and
\* the rows are locals of the function the thread runs.
OpGuiUnidos == "unidos.ValidadorUnificado"
OpGuiUnidos2 == "unidos2.ValidadorUnificado"

Hilos == {"hilo1", "hilo2"}

\* no thread started
EnReposo ==
    [fase |-> "reposo", documentos_pdf |-> <<>>, documentos_excel |-> <<>>,
     disponibles |-> <<>>, i |-> 0, resultados |-> <<>>]

HilosEnReposo == [h \in Hilos |-> EnReposo]

\* what the folders and the sheets chosen in the dialogs hold; the thread
\* keeps only the PDFs with a number and a type
HiloPdfValores == {D123, D124}
HiloExcelCrudos == {D1_23}

\* threading.Thread(target=proceso, daemon=True).start(): the thread reads the
\* folder and the sheet into its own lists, and the comparator copies the roster
ui_comparar_documentos(h) ==
    /\ op \in {OpGuiUnidos, OpGuiUnidos2}
    /\ hilos[h].fase = "reposo"
    /\ \E numeros \in SeqsUpTo(HiloPdfValores, MaxPdf),
          crudos \in SeqsUpTo(HiloExcelCrudos, MaxExcel) :
           LET excel == [k \in 1..Len(crudos) |-> normalizar_documento(crudos[k])]
           IN  hilos' = [hilos EXCEPT ![h] =
                   [fase |-> "pdfs", documentos_pdf |-> DocumentosDe(numeros),
                    documentos_excel |-> excel, disponibles |-> excel,
                    i |-> 0, resultados |-> <<>>]]
    /\ UNCHANGED <<op, texto_pdf, archivos_no_leidos, documentos_pdf, documentos_excel_raw,
                   documentos_excel, nombres_pdf, nombres_excel, pdfs, fase, i, disponibles,
                   resultados, estado_doc, score_in>>

\* the comparator of the GUI whose session this is
ComparadorDe(gui) == IF gui = OpGuiUnidos THEN OpUnidosDoc ELSE OpUnidos2Doc

\* the loop with one list of unclaimed documents for every thread of the
\* process instead of a copy per call
hilo_comparar_documentos_exactos_compartido(h) ==
    /\ op \in {OpGuiUnidos, OpGuiUnidos2}
    /\ hilos[h].fase = "pdfs" /\ hilos[h].i < Len(hilos[h].documentos_pdf)
    /\ LET yo == hilos[h]
           paso == PasoDocumento(ComparadorDe(op), yo.documentos_pdf[yo.i + 1],
                                 yo.documentos_excel, yo.disponibles)
       IN  hilos' = [g \in Hilos |->
                       IF g = h
                       THEN [yo EXCEPT !.i = yo.i + 1,
                                       !.resultados = Append(yo.resultados, paso.fila),
                                       !.disponibles = paso.disp]
                       ELSE [hilos[g] EXCEPT !.disponibles = paso.disp]]
    /\ UNCHANGED <<op, texto_pdf, archivos_no_leidos, documentos_pdf, documentos_excel_raw,
                   documentos_excel, nombres_pdf, nombres_excel, pdfs, fase, i, disponibles,
                   resultados, estado_doc, score_in>>

\* one iteration of the loop of comparar_documentos_exactos in thread h
hilo_comparar_documentos_exactos(h) ==
    /\ op \in {OpGuiUnidos, OpGuiUnidos2}
    /\ hilos[h].fase = "pdfs" /\ hilos[h].i < Len(hilos[h].documentos_pdf)
    /\ LET yo == hilos[h]
           paso == PasoDocumento(ComparadorDe(op), yo.documentos_pdf[yo.i + 1],
                                 yo.documentos_excel, yo.disponibles)
       IN  hilos' = [hilos EXCEPT ![h] =
                       [yo EXCEPT !.i = yo.i + 1,
                                  !.resultados = Append(yo.resultados, paso.fila),
                                  !.disponibles = paso.disp]]
    /\ UNCHANGED <<op, texto_pdf, archivos_no_leidos, documentos_pdf, documentos_excel_raw,
                   documentos_excel, nombres_pdf, nombres_excel, pdfs, fase, i, disponibles,
                   resultados, estado_doc, score_in>>

\* the comparator returns its rows to the function of the thread
hilo_retornar(h) ==
    /\ op \in {OpGuiUnidos, OpGuiUnidos2}
    /\ hilos[h].fase = "pdfs" /\ hilos[h].i = Len(hilos[h].documentos_pdf)
    /\ hilos' = [hilos EXCEPT ![h].fase = "fin"]
    /\ UNCHANGED <<op, texto_pdf, archivos_no_leidos, documentos_pdf, documentos_excel_raw,
                   documentos_excel, nombres_pdf, nombres_excel, pdfs, fase, i, disponibles,
                   resultados, estado_doc, score_in>>

InitComun ==
    /\ fase = "pdfs" /\ i = 0
    /\ hilos = HilosEnReposo
    /\ resultados = <<>>
    /\ estado_doc = SinAsignar
    /\ archivos_no_leidos = <<>>

\* a document comparison: documentos_excel_disponibles = documentos_excel.copy()
InitDocumentos ==
    /\ op \in {OpDocumentos, OpUnidosDoc, OpUnidos2Doc}
    /\ \E numeros \in SeqsUpTo(DocumentosPdfValores, MaxPdf) :
           documentos_pdf = DocumentosDe(numeros)
    /\ documentos_excel_raw \in SeqsUpTo(DocumentosExcelCrudos, MaxExcel)
    /\ documentos_excel =
           [k \in 1..Len(documentos_excel_raw) |->
               normalizar_documento(documentos_excel_raw[k])]
    /\ disponibles = documentos_excel
    /\ nombres_pdf = <<>> /\ nombres_excel = <<>> /\ pdfs = <<>>
    /\ score_in = 0
    /\ texto_pdf = <<>>
    /\ InitComun

InitNombres ==
    /\ op \in {OpMainNom, OpUnidosNom, OpUnidos2Nom}
    /\ nombres_pdf \in SeqsUpTo(NombresPdfValores, MaxPdf)
    /\ nombres_excel \in SeqsUpTo(NombresExcelValores, MaxExcel)
    /\ documentos_pdf = <<>> /\ documentos_excel_raw = <<>>
    /\ documentos_excel = <<>> /\ pdfs = <<>>
    /\ disponibles = <<>>
    /\ score_in = 0
    /\ texto_pdf = <<>>
    /\ InitComun

\* a full validation: both columns read from the sheet, the documents
\* normalized
InitValidacion ==
    /\ op \in {OpUnidosVal, OpUnidos2Val}
    /\ \E ps \in SeqsUpTo(PdfValores, MaxPdf) : pdfs = PdfsDe(ps)
    /\ \E filas \in SeqsUpTo(FilasExcelValores, MaxExcel) :
           /\ nombres_excel =
                  leer_columna_excel([k \in 1..Len(filas) |-> filas[k].nombre])
           /\ documentos_excel_raw =
                  leer_columna_excel([k \in 1..Len(filas) |-> filas[k].documento])
    /\ documentos_excel =
           [k \in 1..Len(documentos_excel_raw) |->
               normalizar_documento(documentos_excel_raw[k])]
    /\ documentos_pdf = <<>> /\ nombres_pdf = <<>>
    /\ disponibles = <<>>
    /\ score_in = 0
    /\ texto_pdf = <<>>
    /\ InitComun

InitEvaluar ==
    /\ op = OpEvaluar
    /\ score_in \in 0..100
    /\ documentos_pdf = <<>> /\ documentos_excel_raw = <<>>
    /\ documentos_excel = <<>>
    /\ nombres_pdf = <<>> /\ nombres_excel = <<>> /\ pdfs = <<>>
    /\ disponibles = <<>>
    /\ texto_pdf = <<>>
    /\ InitComun

\* what the six patterns find in one text
\* a capture of PATRON_CEDULA_ADULTO: groups of three digits after each dot
D1_234 == <<"1", ".", "2", "3", "4">>

Textos ==
    [general : {SinMatch, <<" ">>, ANA_LOPEZ},
     registro : {SinMatch, <<>>, RUIZ_CARLOS},
     migracion : {SinMatch, <<" ", " ", " ", " ", " ">>, LOPEZ_ANA},
     cedula : {SinMatch, D1_234},
     nuip : {SinMatch, D124},
     rumv : {SinMatch, D7}]

InitExtraer ==
    /\ op = OpExtraer
    /\ texto_pdf \in Textos
    /\ documentos_pdf = <<>> /\ documentos_excel_raw = <<>>
    /\ documentos_excel = <<>>
    /\ nombres_pdf = <<>> /\ nombres_excel = <<>> /\ pdfs = <<>>
    /\ disponibles = <<>>
    /\ score_in = 0
    /\ InitComun

\* the tokens a name is written with
Partes == {<<"A">>, <<"B">>, <<"C">>, <<"D", "E">>}

InitInvertir ==
    /\ op = OpInvertir
    /\ texto_pdf \in [partes : SeqsUpTo(Partes, MaxPartes),
                   separador : {<<" ">>, <<" ", "\t">>},
                   margen : {<<>>, <<" ">>}]
    /\ documentos_pdf = <<>> /\ documentos_excel_raw = <<>>
    /\ documentos_excel = <<>>
    /\ nombres_pdf = <<>> /\ nombres_excel = <<>> /\ pdfs = <<>>
    /\ disponibles = <<>>
    /\ score_in = 0
    /\ InitComun

\* the characters of a text to normalize: lower and upper case, an accented
\* letter, blanks, a digit, punctuation
CaracteresTexto == {"a", "B", "U+00E1", " ", "\t", "1", "."}

InitNormalizar ==
    /\ op = OpNormalizar
    /\ texto_pdf \in SeqsUpTo(CaracteresTexto, MaxTexto)
    /\ documentos_pdf = <<>> /\ documentos_excel_raw = <<>>
    /\ documentos_excel = <<>>
    /\ nombres_pdf = <<>> /\ nombres_excel = <<>> /\ pdfs = <<>>
    /\ disponibles = <<>>
    /\ score_in = 0
    /\ InitComun

\* a folder of PDFs to read: the lists the loop fills start empty
InitCarpeta ==
    /\ op \in {OpDocumentosCarpeta, OpMainCarpeta, OpUnidosCarpeta, OpUnidos2Carpeta}
    /\ \E ps \in SeqsUpTo(PdfValores, MaxPdf) : pdfs = PdfsDe(ps)
    /\ documentos_pdf = <<>> /\ nombres_pdf = <<>>
    /\ documentos_excel_raw = <<>> /\ documentos_excel = <<>>
    /\ nombres_excel = <<>>
    /\ disponibles = <<>>
    /\ score_in = 0
    /\ texto_pdf = <<>>
    /\ InitComun

\* a finished comparison hands one row to the exporter of its script
InitExportar ==
    /\ op \in {OpExportarDocumentos, OpExportarUnidos, OpExportarUnidos2}
    /\ \E fila \in FilasExportables(op) : resultados = <<fila>>
    /\ hilos = HilosEnReposo
    /\ fase = "pdfs" /\ i = 0
    /\ estado_doc = SinAsignar
    /\ archivos_no_leidos = <<>>
    /\ documentos_pdf = <<>> /\ nombres_pdf = <<>> /\ pdfs = <<>>
    /\ documentos_excel_raw = <<>> /\ documentos_excel = <<>>
    /\ nombres_excel = <<>>
    /\ disponibles = <<>>
    /\ score_in = 0
    /\ texto_pdf = <<>>

Init ==
    \/ InitDocumentos \/ InitNombres \/ InitValidacion \/ InitEvaluar
    \/ InitExtraer \/ InitInvertir \/ InitNormalizar \/ InitCarpeta
    \/ InitExportar

Next ==
    \/ documentos_comparar_documentos_pdf_excel
    \/ unidos_comparar_documentos_exactos
    \/ unidos2_comparar_documentos_exactos
    \/ main_comparar_nombres_pdf_excel
    \/ unidos_comparar_nombres_fuzzy
    \/ unidos2_comparar_nombres_fuzzy
    \/ unidos2_falta_certificado
    \/ unidos_validacion_completa
    \/ unidos2_procesar_validacion_completa
    \/ unidos2_no_tiene_certificado
    \/ clasificar
    \/ extraer
    \/ invertir
    \/ normalizar
    \/ documentos_procesar_carpeta_pdfs
    \/ main_procesar_carpeta_pdfs
    \/ unidos_comparar_nombres
    \/ unidos2_procesar_comparar_nombres
    \/ exportar
    \/ pasar_a_excel
    \/ retornar

Spec == Init /\ [][Next]_vars

\* a GUI session: no run of the command line, and up to two comparisons of
\* documents started one after the other without waiting
InitHilos ==
    /\ op \in {OpGuiUnidos, OpGuiUnidos2}
    /\ hilos = HilosEnReposo
    /\ fase = "gui" /\ i = 0
    /\ resultados = <<>> /\ estado_doc = SinAsignar /\ archivos_no_leidos = <<>>
    /\ documentos_pdf = <<>> /\ nombres_pdf = <<>> /\ pdfs = <<>>
    /\ documentos_excel_raw = <<>> /\ documentos_excel = <<>>
    /\ nombres_excel = <<>> /\ disponibles = <<>>
    /\ score_in = 0 /\ texto_pdf = <<>>

NextHilos ==
    \E h \in Hilos :
        \/ ui_comparar_documentos(h)
        \/ hilo_comparar_documentos_exactos(h)
        \/ hilo_retornar(h)

SpecHilos == InitHilos /\ [][NextHilos]_vars

--------------------------------------------------------------------------
(* The properties.                                                          *)

ComparadoresDocumentos == {OpDocumentos, OpUnidosDoc, OpUnidos2Doc}
ComparadoresNombres == {OpMainNom, OpUnidosNom, OpUnidos2Nom}
Validaciones == {OpUnidosVal, OpUnidos2Val}

\* the statuses that report an exact match
EsExacta(estado) == estado \in {<<"U+2714 EXACTA">>, <<"U+2714">>}

\* the statuses of an empty record
EsVacio(estado) ==
    estado \in {<<"U+274C DOCUMENTO VACIO">>, <<"DOCUMENTO VACIO">>, <<"U+274C">>}

\* what a row carries in the match column when it reports no roster entry
SinCoincidencia == {<<>>, TextoDocumentoVacio, TextoNombreVacio, Raya}

\* the number of entries of s equal to v
Contar(s, v) == Cardinality({k \in 1..Len(s) : s[k] = v})

\* the rows of the records: the first rows of resultados, one per record read
FilasDeRegistros ==
    1..(IF Len(resultados) < Len(Registros) THEN Len(resultados) ELSE Len(Registros))

\* C1: in every document comparator, for every document value v, the rows
\* reported EXACT with matched value v are never more than the roster entries
\* equal to v (of two records "123" against one roster "123", the second is
\* not EXACT).
C1_ExactasNoExcedenListado ==
    op \in ComparadoresDocumentos =>
        \A v \in DocumentosExcelValores :
            Cardinality({k \in 1..Len(resultados) :
                            /\ EsExacta(resultados[k].estado)
                            /\ resultados[k].match = v})
                <= Contar(documentos_excel, v)

\* C2: in every row of a comparator of documentos.py, unidos.py and
\* unidos2.py the status is EXACT if and only if the score is 100.
C2_ExactaSiiCien ==
    op \in {OpDocumentos, OpUnidosDoc, OpUnidos2Doc, OpUnidosNom, OpUnidos2Nom} =>
        \A k \in 1..Len(resultados) :
            EsExacta(resultados[k].estado) <=> resultados[k].score = 100

\* C3: in the full validation an exact document match consumes the roster
\* entry: for every document number v, the PDFs reported EXACT against v are
\* never more than the roster entries equal to v.
C3_ValidacionConsumeDocumento ==
    op \in Validaciones =>
        \A v \in Range(documentos_excel) :
            Cardinality({k \in 1..Len(resultados) :
                            /\ EsExacta(resultados[k].estado_doc)
                            /\ resultados[k].mejor_doc = v})
                <= Contar(documentos_excel, v)

\* C4: in every name comparator a record is reported EXACT (score 100) only
\* when its normalized value equals, as a string, the normalized value of the
\* matched roster entry: no token reordering.
C4_ExactaSoloPorIgualdad ==
    op \in ComparadoresNombres =>
        \A k \in FilasDeRegistros :
            (EsExacta(resultados[k].estado) \/ resultados[k].score = 100) =>
                normalizar_texto(resultados[k].nombre)
                    = normalizar_texto(resultados[k].match)

\* C5: in every list comparator a record whose normalized value is empty
\* gets the EMPTY status and score 0, and no roster entry as its match.
C5_RegistroVacio ==
    /\ op \in ComparadoresDocumentos =>
           \A k \in FilasDeRegistros :
               resultados[k].documento = <<>> =>
                   /\ EsVacio(resultados[k].estado)
                   /\ resultados[k].score = 0
                   /\ resultados[k].match \in SinCoincidencia
    /\ op \in ComparadoresNombres =>
           \A k \in FilasDeRegistros :
               normalizar_texto(resultados[k].nombre) = <<>> =>
                   /\ EsVacio(resultados[k].estado)
                   /\ resultados[k].score = 0
                   /\ resultados[k].match \in SinCoincidencia

\* the first roster entry whose normalized value is norm (0: none)
PrimeroIgual(norm) == Index(Normalizados(nombres_excel), norm)

\* C6: name entries are never consumed: every record whose normalized value
\* equals that of some roster entry is reported EXACT against the first such
\* entry in roster order, however many earlier records matched it.
C6_NombreNoSeConsume ==
    op \in ComparadoresNombres =>
        \A k \in FilasDeRegistros :
            LET idx == PrimeroIgual(normalizar_texto(resultados[k].nombre))
            IN  idx > 0 =>
                    /\ EsExacta(resultados[k].estado)
                    /\ resultados[k].score = 100
                    /\ resultados[k].match = nombres_excel[idx]

\* the greatest element of a non-empty set of integers
Mayor(S) == CHOOSE x \in S : \A y \in S : y <= x

\* the scores of doc against every entry of the roster
Similitudes(doc) == {ratio(doc, documentos_excel[j]) : j \in 1..Len(documentos_excel)}

\* C7: the best match and score of a document record are the maximum over
\* the whole roster, the entries consumed by earlier records included.
C7_MejorSobreTodoElListado ==
    op \in ComparadoresDocumentos =>
        \A k \in FilasDeRegistros :
            LET doc == resultados[k].documento
                mayor == Mayor(Similitudes(doc) \cup {0})
            IN  doc # <<>> =>
                    /\ resultados[k].score = mayor
                    /\ mayor > 0 =>
                           /\ resultados[k].match \in Range(documentos_excel)
                           /\ ratio(doc, resultados[k].match) = mayor

\* row k of resultados describes record k of the input
DescribeRegistro(k) ==
    IF op \in ComparadoresDocumentos
    THEN /\ resultados[k].archivo = documentos_pdf[k].archivo
         /\ resultados[k].documento = documentos_pdf[k].numero
         /\ resultados[k].tipo = documentos_pdf[k].tipo
    ELSE resultados[k].nombre = nombres_pdf[k]

\* C8: each comparator returns one row per input record, row k describing
\* record k; while the records are read there are as many rows as records
\* read, and the rows unidos2.comparar_nombres_fuzzy appends for the roster
\* come after the rows of the n records.
C8_UnaFilaPorRegistro ==
    op \in ComparadoresDocumentos \cup ComparadoresNombres =>
        /\ fase = "pdfs" => Len(resultados) = i
        /\ fase \in {"excel", "fin"} => Len(resultados) >= Len(Registros)
        /\ (fase = "fin" /\ op # OpUnidos2Nom) => Len(resultados) = Len(Registros)
        /\ \A k \in FilasDeRegistros : DescribeRegistro(k)
        /\ \A k \in 1..Len(resultados) :
               k > Len(Registros) => resultados[k].estado = <<"FALTA CERTIFICADO">>

\* C8 happens: unidos2.comparar_nombres_fuzzy has returned the rows of two
\* different records, the second one empty once normalized, followed by a
\* row of the roster.
C8_Testigo ==
    /\ op = OpUnidos2Nom /\ fase = "fin"
    /\ nombres_pdf = <<ANA_LOPE, SoloDigitos>>
    /\ Len(resultados) = 3
    /\ resultados[1].nombre = ANA_LOPE /\ resultados[2].nombre = SoloDigitos
    /\ resultados[3].nombre = Raya

\* the tier a status names
Nivel(estado) ==
    IF estado[1] = "U+2714 EXACTA" THEN "EXACT"
    ELSE IF estado[1] = "U+26A0 ALTA" THEN "HIGH"
    ELSE IF estado[1] = "U+26A0 MEDIA" THEN "MEDIUM"
    ELSE IF estado[1] = "U+26A0 BAJA" THEN "LOW"
    ELSE IF estado[1] = "U+274C SIN COINCIDENCIA" THEN "NONE"
    ELSE "?"

\* the tier the thresholds 100, 90, 70, 50 give a score
NivelDe(s) ==
    IF s = 100 THEN "EXACT"
    ELSE IF 90 <= s /\ s < 100 THEN "HIGH"
    ELSE IF 70 <= s /\ s < 90 THEN "MEDIUM"
    ELSE IF 50 <= s /\ s < 70 THEN "LOW"
    ELSE "NONE"

\* C9: with UMBRAL_EXACTA = 100, UMBRAL_ALTA = 90, UMBRAL_MEDIA = 70 and
\* UMBRAL_BAJA = 50, evaluar_similitud gives every score of 0..100 the tier of
\* its range, and the if/elif chain of unidos.comparar_nombres_fuzzy gives the
\* same status.
C9_Niveles ==
    /\ UMBRAL_EXACTA = 100 /\ UMBRAL_ALTA = 90
    /\ UMBRAL_MEDIA = 70 /\ UMBRAL_BAJA = 50
    /\ (op = OpEvaluar /\ fase = "fin") =>
           /\ Len(resultados) = 1
           /\ resultados[1].score = score_in
           /\ Nivel(resultados[1].estado) = NivelDe(score_in)
           /\ resultados[1].estado_unidos = resultados[1].estado

\* C9 happens: the score 90, the lowest of the HIGH tier, has been classified.
C9_Testigo ==
    /\ op = OpEvaluar /\ fase = "fin"
    /\ score_in = 90
    /\ resultados[1].estado = <<MSG_ALTA, 90>>
    /\ resultados[1].estado_unidos = <<"U+26A0 ALTA", 90>>

\* the rows the second loop of unidos2.comparar_nombres_fuzzy has appended
FilasDeFaltantes ==
    {k \in 1..Len(resultados) : k > Len(nombres_pdf)}

\* the greatest similarity of a roster name to the extracted names is below 90
SinSimilar(nombre_excel) ==
    \A k \in 1..Len(nombres_pdf) :
        ratio(normalizar_texto(nombre_excel), normalizar_texto(nombres_pdf[k])) < 90

\* C10: the coverage pass of unidos2.comparar_nombres_fuzzy emits a FALTA
\* CERTIFICADO row for a roster name if and only if the greatest similarity
\* of its normalized value to the normalized extracted names is below 90.
C10_FaltaSiiSinSimilar ==
    (op = OpUnidos2Nom /\ fase = "fin") =>
        \A j \in 1..Len(nombres_excel) :
            SinSimilar(nombres_excel[j]) <=>
                \E k \in FilasDeFaltantes :
                    /\ resultados[k].estado = <<"FALTA CERTIFICADO">>
                    /\ resultados[k].match = nombres_excel[j]

\* the rows the second loop of the full validation has appended
FilasSinPdf == {k \in 1..Len(resultados) : resultados[k].archivo = SinPdf}

\* the document of roster row j ("" when the document column is shorter)
DocumentoDeFila(j) ==
    IF j <= Len(documentos_excel) THEN documentos_excel[j] ELSE <<>>

\* some PDF's extracted name or document number scores at least 90 against
\* roster row j
AlcanzaAlta(j) ==
    \E k \in 1..Len(pdfs) :
        \/ /\ pdfs[k].nombre # <<>>
           /\ ratio(normalizar_texto(pdfs[k].nombre),
                    normalizar_texto(nombres_excel[j])) >= 90
        \/ /\ pdfs[k].numero # <<>>
           /\ ratio(pdfs[k].numero, DocumentoDeFila(j)) >= 90

\* C11: in the second phase of unidos2.procesar_validacion_completa a roster
\* row is reported NO TIENE CERTIFICADO exactly when no extracted record
\* reaches similarity 90 against it.
C11_SinCertificadoSiiNadieAlcanza ==
    (op = OpUnidos2Val /\ fase = "fin") =>
        \A j \in 1..Len(nombres_excel) :
            ~AlcanzaAlta(j) <=>
                \E k \in FilasSinPdf :
                    /\ resultados[k].estado_nombre = EstadoNoTieneCertificado
                    /\ resultados[k].mejor_nombre = nombres_excel[j]

\* C12: in unidos2.procesar_validacion_completa a PDF without document
\* number is not fatal: the first loop never ends in an exception, wherever
\* that PDF stands in the folder, and the row of such a PDF has document
\* score 0 and no matched document.
C12_SinNumeroNoEsFatal ==
    op = OpUnidos2Val =>
        /\ fase = "error" => Len(resultados) >= Len(pdfs)
        /\ \A k \in FilasDeRegistros :
               pdfs[k].numero = <<>> =>
                   /\ resultados[k].sim_doc = 0
                   /\ resultados[k].mejor_doc = <<>>

\* C13: the roster pass of unidos2.procesar_validacion_completa never ends in
\* an exception, and a roster row whose document is empty once normalized, or
\* whose name has no document beside it, yields a NO TIENE CERTIFICADO row.
C13_PasadaDelListadoNoFalla ==
    op = OpUnidos2Val =>
        /\ fase = "error" => Len(resultados) < Len(pdfs)
        /\ fase = "fin" =>
               \A j \in 1..Len(nombres_excel) :
                   DocumentoDeFila(j) = <<>> =>
                       \E k \in FilasSinPdf :
                           resultados[k].mejor_nombre = nombres_excel[j]

\* the roster list the fuzzy scan of the running comparator goes through
ListaExaminada ==
    IF op = OpDocumentos THEN disponibles
    ELSE IF op \in ComparadoresDocumentos THEN documentos_excel
    ELSE nombres_excel

\* the record the next iteration of the first loop reads
RegistroEnCurso ==
    IF op \in ComparadoresDocumentos THEN documentos_pdf[i + 1].numero
    ELSE nombres_pdf[i + 1]

\* the score the running comparator gives a record against a roster entry
Puntaje(registro, entrada) ==
    IF op \in ComparadoresDocumentos THEN ratio(registro, entrada)
    ELSE IF op = OpUnidos2Nom
    THEN token_sort_ratio(normalizar_texto(registro), normalizar_texto(entrada))
    ELSE ratio(normalizar_texto(registro), normalizar_texto(entrada))

\* the first position of lista whose score against registro is the greatest
PrimeroConMaximo(registro, lista) ==
    CHOOSE j \in 1..Len(lista) :
        /\ \A h \in 1..Len(lista) : Puntaje(registro, lista[h]) <= Puntaje(registro, lista[j])
        /\ \A h \in 1..(j - 1) : Puntaje(registro, lista[h]) < Puntaje(registro, lista[j])

\* the row an iteration of the first loop appends reports, whenever it
\* reports a roster entry, the first entry in roster order among those of
\* greatest score
PrimeroEntreIguales ==
    (/\ op \in ComparadoresDocumentos \cup ComparadoresNombres
     /\ fase = "pdfs"
     /\ Len(resultados') = Len(resultados) + 1) =>
        LET fila == resultados'[Len(resultados')]
        IN  (/\ ListaExaminada # <<>>
             /\ fila.score > 0 \/ op = OpUnidos2Nom) =>
                /\ fila.match =
                       ListaExaminada[PrimeroConMaximo(RegistroEnCurso, ListaExaminada)]
                /\ fila.score = Puntaje(RegistroEnCurso, fila.match)

\* C14: when several roster entries attain the same greatest similarity to a
\* record, the match reported is the first of them in roster order, in every
\* comparator loop.
C14_EmpateEsElPrimero == [][PrimeroEntreIguales]_vars

\* C14 happens: "12" scores 80 against both "124" and "123", and the row
\* reports "124", the first of the roster.
C14_Testigo ==
    /\ op \in ComparadoresDocumentos
    /\ documentos_excel = <<D124, D123>>
    /\ Len(resultados) >= 1
    /\ resultados[1].documento = D12
    /\ ratio(D12, D124) = ratio(D12, D123)
    /\ resultados[1].match = D124 /\ resultados[1].score = 80

\* C15: the match a row reports is the roster entry's raw value: an EXACT
\* document row reports the cell of the sheet whose normalized value is the
\* record's ("1.234.567" for the record "1234567"), and an EXACT name row
\* reports the roster name as written.
C15_CoincidenciaEsValorCrudo ==
    /\ op \in ComparadoresDocumentos =>
           \A k \in FilasDeRegistros :
               EsExacta(resultados[k].estado) =>
                   \E j \in 1..Len(documentos_excel_raw) :
                       /\ normalizar_documento(documentos_excel_raw[j])
                              = resultados[k].documento
                       /\ resultados[k].match = documentos_excel_raw[j]
    /\ op \in {OpMainNom, OpUnidosNom} =>
           \A k \in FilasDeRegistros :
               EsExacta(resultados[k].estado) =>
                   \E j \in 1..Len(nombres_excel) :
                       /\ normalizar_texto(nombres_excel[j])
                              = normalizar_texto(resultados[k].nombre)
                       /\ resultados[k].match = nombres_excel[j]

\* C16: extraction is first-match-wins in a fixed order: for names "A nombre
\* de:", then Registro Civil, then the migration pattern; for documents
\* CEDULA_ADULTO, then NUIP_MENOR, then RUMV_PPT.  The value and the subtype
\* come from the first pattern that matches, even when its capture is empty.
C16_PrimerPatronGana ==
    (op = OpExtraer /\ fase = "fin") =>
        LET t == texto_pdf
            r == resultados[1]
        IN  /\ t.general # SinMatch => r.nombre = Strip(t.general)
            /\ (t.general = SinMatch /\ t.registro # SinMatch) =>
                   r.nombre = invertir_nombre_si_correspondiente(Strip(t.registro))
            /\ (t.general = SinMatch /\ t.registro = SinMatch
                    /\ t.migracion # SinMatch) =>
                   r.nombre = Strip(t.migracion)
            /\ (t.general = SinMatch /\ t.registro = SinMatch
                    /\ t.migracion = SinMatch) =>
                   r.nombre = SinMatch
            /\ t.cedula # SinMatch =>
                   r.tipo = "CEDULA_ADULTO" /\ r.numero = normalizar_documento(t.cedula)
            /\ (t.cedula = SinMatch /\ t.nuip # SinMatch) =>
                   r.tipo = "NUIP_MENOR" /\ r.numero = normalizar_documento(t.nuip)
            /\ (t.cedula = SinMatch /\ t.nuip = SinMatch /\ t.rumv # SinMatch) =>
                   r.tipo = "RUMV_PPT" /\ r.numero = normalizar_documento(t.rumv)
            /\ (t.cedula = SinMatch /\ t.nuip = SinMatch /\ t.rumv = SinMatch) =>
                   r.tipo = "None" /\ r.numero = SinMatch

\* C16 happens: the six patterns match, "A nombre de:" with a blank capture:
\* the name returned is empty and the document is the cedula "1.234" as "1234".
C16_Testigo ==
    /\ op = OpExtraer /\ fase = "fin"
    /\ texto_pdf.general = <<" ">> /\ texto_pdf.registro = RUIZ_CARLOS
    /\ texto_pdf.migracion = LOPEZ_ANA
    /\ texto_pdf.cedula = D1_234 /\ texto_pdf.nuip = D124 /\ texto_pdf.rumv = D7
    /\ resultados[1].nombre = <<>>
    /\ resultados[1].numero = <<"1", "2", "3", "4">>
    /\ resultados[1].tipo = "CEDULA_ADULTO"

\* the tokens t[n div 2 .. n-1] followed by t[0 .. n div 2 - 1]
Rotadas(partes) ==
    LET n == Len(partes)
    IN  [k \in 1..n |-> partes[((k - 1 + (n \div 2)) % n) + 1]]

\* C17: the surname-first reordering maps a name of n >= 2 tokens to the
\* tokens of its second half followed by those of the first (n div 2),
\* joined by single spaces; a name of fewer than 2 tokens is returned
\* unchanged; the multiset of tokens is preserved; and the extractor applies
\* it to the capture of the Registro Civil pattern only.
C17_Reordenamiento ==
    /\ (op = OpInvertir /\ fase = "fin") =>
           LET partes == texto_pdf.partes
               r == resultados[1]
           IN  /\ Len(partes) >= 2 => r.invertido = Join(Rotadas(partes))
               /\ Len(partes) < 2 => r.invertido = r.nombre
               /\ \A p \in Partes :
                      Contar(Split(r.invertido), p) = Contar(partes, p)
    /\ (op = OpExtraer /\ fase = "fin") =>
           LET t == texto_pdf
               r == resultados[1]
           IN  /\ t.general = ANA_LOPEZ => r.nombre = ANA_LOPEZ
               /\ (t.general = SinMatch /\ t.registro = RUIZ_CARLOS) =>
                      r.nombre = CARLOS_RUIZ
               /\ (t.general = SinMatch /\ t.registro = SinMatch
                       /\ t.migracion = LOPEZ_ANA) =>
                      r.nombre = LOPEZ_ANA

\* C17 happens: the three tokens A, B, C written with blanks around and tabs
\* between come back as "B C A".
C17_Testigo ==
    /\ op = OpInvertir /\ fase = "fin"
    /\ texto_pdf.partes = <<<<"A">>, <<"B">>, <<"C">>>>
    /\ texto_pdf.separador = <<" ", "\t">> /\ texto_pdf.margen = <<" ">>
    /\ resultados[1].nombre = <<" ", "A", " ", "\t", "B", " ", "\t", "C", " ">>
    /\ resultados[1].invertido = <<"B", " ", "C", " ", "A">>

\* C18: both normalizers are idempotent: normalizing a normalized text, or a
\* normalized document, gives it back unchanged; and the empty text
\* normalizes to the empty text, without an error.
C18_NormalizadoresIdempotentes ==
    (op = OpNormalizar /\ Len(resultados) >= 1) =>
        /\ texto_pdf = <<>> =>
               resultados[1].texto = <<>> /\ resultados[1].documento = <<>>
        /\ Len(resultados) = 2 =>
               /\ resultados[2].texto = resultados[1].texto
               /\ resultados[2].documento = resultados[1].documento

\* C18 happens: "a.1" normalizes to the text "A" and to the document "1",
\* both other than the text read, and a second pass leaves them as they are.
C18_Testigo ==
    /\ op = OpNormalizar /\ fase = "fin"
    /\ texto_pdf = <<"a", ".", "1">>
    /\ resultados[1].texto = <<"A">> /\ resultados[2].texto = <<"A">>
    /\ resultados[1].documento = <<"1">> /\ resultados[2].documento = <<"1">>

\* the statuses of a record no roster entry resembles: "SIN COINCIDENCIA",
\* and the bare cross of main.py
EstadosSinCoincidencia == {<<"U+274C SIN COINCIDENCIA">>, <<"U+274C">>}

Enumeraciones(n) ==
    {f \in [1..n -> 1..n] : \A a, b \in 1..n : f[a] = f[b] => a = b}

\* C20: the status and the score a document comparison gives a file do not
\* depend on the order in which the folder is enumerated: a run over the
\* same files in any other order, against the same roster, gives every file
\* the status and the score of this run.
C20_OrdenDeLaCarpeta ==
    (op \in ComparadoresDocumentos /\ fase = "fin") =>
        \A f \in Enumeraciones(Len(documentos_pdf)) :
            LET otra == CompararDocumentos(op,
                            [k \in 1..Len(documentos_pdf) |-> documentos_pdf[f[k]]],
                            documentos_excel, documentos_excel)
            IN  \A k \in 1..Len(resultados), j \in 1..Len(otra) :
                    otra[j].archivo = resultados[k].archivo =>
                        /\ otra[j].estado = resultados[k].estado
                        /\ otra[j].score = resultados[k].score

Carpetas == {OpDocumentosCarpeta, OpMainCarpeta, OpUnidosCarpeta, OpUnidos2Carpeta}

\* the extractor of the folder run got nothing out of the PDF p
SinExtraer(p) ==
    IF op = OpDocumentosCarpeta THEN p.numero = <<>> ELSE p.nombre = <<>>

\* C21: every PDF of the folder ends up in exactly one of two places, the
\* list of extracted records handed to the comparison or the list of files
\* reported as not processed: after k files are read the two lists hold k
\* entries together, and every file whose extraction found nothing is in the
\* list of files not processed.
C21_NingunPdfSeDescarta ==
    (op \in Carpetas /\ fase \in {"pdfs", "fin"}) =>
        /\ Len(documentos_pdf) + Len(nombres_pdf) + Len(archivos_no_leidos) = i
        /\ \A k \in 1..i :
               SinExtraer(pdfs[k]) <=>
                   (\E j \in 1..Len(archivos_no_leidos) :
                        archivos_no_leidos[j] = pdfs[k].archivo)

\* row k of resultados is a coverage row, and the roster name it reports
EsCobertura(k) ==
    IF op = OpUnidos2Val THEN resultados[k].archivo = SinPdf
    ELSE resultados[k].estado = <<"FALTA CERTIFICADO">>

NombreDeCobertura(k) ==
    IF op = OpUnidos2Val THEN resultados[k].mejor_nombre ELSE resultados[k].match

Exportadores == {OpExportarDocumentos, OpExportarUnidos, OpExportarUnidos2}

\* the tier the status of an exported row names ("?": the status names none)
NivelDelEstado(estado) ==
    IF estado[1] = "U+2714 EXACTA" THEN "EXACT"
    ELSE IF estado[1] \in {"U+26A0 ALTA", "U+26A0 ALTA SIMILITUD"} THEN "HIGH"
    ELSE IF estado[1] \in {"U+26A0 MEDIA", "U+26A0 MEDIA SIMILITUD"} THEN "MEDIUM"
    ELSE IF estado[1] \in {"U+26A0 BAJA", "U+26A0 BAJA SIMILITUD"} THEN "LOW"
    ELSE IF estado[1] = "U+274C SIN COINCIDENCIA" THEN "NONE"
    ELSE IF estado[1] \in {"U+274C DOCUMENTO VACIO", "DOCUMENTO VACIO", "U+274C"}
    THEN "EMPTY"
    ELSE "?"

\* EXACT green, HIGH and MEDIUM yellow, LOW blue, NONE and EMPTY red
ColorDelNivel(nivel) ==
    IF nivel = "EXACT" THEN "FILL_VERDE"
    ELSE IF nivel \in {"HIGH", "MEDIUM"} THEN "FILL_AMARILLO"
    ELSE IF nivel = "LOW" THEN "FILL_AZUL"
    ELSE "FILL_ROJO"

\* C23: in every exporter the fill of an exported row is the colour of the
\* row's tier (EXACT green, HIGH and MEDIUM yellow, LOW blue, NONE and EMPTY
\* red), and it is the fill evaluar_similitud returns for the row's score.
C23_ColorPorNivel ==
    (op \in Exportadores /\ fase = "fin") =>
        LET fila == resultados[1]
        IN  /\ NivelDelEstado(fila.estado) # "?" =>
                   fila.fill = ColorDelNivel(NivelDelEstado(fila.estado))
            /\ (op = OpExportarUnidos2
                    /\ fila.estado = evaluar_similitud(fila.score).estado) =>
                   fila.fill = evaluar_similitud(fila.score).fill

\* C28: the export of unidos2 gives a coverage-gap row (status FALTA
\* CERTIFICADO) the red fill of a failure, never the green, yellow or blue of
\* a match.
C28_FaltaCertificadoEnRojo ==
    (op = OpExportarUnidos2 /\ fase = "fin"
         /\ resultados[1].estado = <<"FALTA CERTIFICADO">>) =>
        resultados[1].fill = "FILL_ROJO"

\* the rows of rs reported EXACT
Exactas(rs) == {k \in 1..Len(rs) : EsExacta(rs[k].estado)}

\* one step of a document comparator keeps the available entries, or takes
\* away one entry equal to the record of the EXACT row it has just written
PasoDeDisponibles ==
    op \in ComparadoresDocumentos =>
        /\ \/ /\ disponibles' = disponibles
              /\ Exactas(resultados') = Exactas(resultados)
           \/ /\ Len(resultados') = Len(resultados) + 1
              /\ EsExacta(resultados'[Len(resultados')].estado)
              /\ Index(disponibles, resultados'[Len(resultados')].documento) > 0
              /\ disponibles' = Remove(disponibles, resultados'[Len(resultados')].documento)
        /\ Len(disponibles') = Len(documentos_excel) - Cardinality(Exactas(resultados'))

\* C24: within a run of a document comparator the available roster entries
\* only shrink: an EXACT result removes exactly one entry equal to the
\* record's value, no other result removes anything, nothing is added back,
\* and after the first k records the available entries are as many as the
\* roster's minus the EXACT results among those k.
C24_DisponiblesSoloDecrece == [][PasoDeDisponibles]_vars

\* C25: in the full validation an extracted name that is not empty as raw
\* text but is empty once normalized (a name of digits, say) is never
\* reported as an EXACT match of a roster row, whatever the roster holds.
C25_NombreVacioNoEsExacto ==
    op \in Validaciones =>
        \A k \in FilasDeRegistros :
            (resultados[k].nombre # <<>>
                 /\ normalizar_texto(resultados[k].nombre) = <<>>) =>
                /\ ~EsExacta(resultados[k].estado_nombre)
                /\ resultados[k].sim_nombre < 100

\* C26: in unidos2.procesar_validacion_completa the name status and the
\* document status of a PDF's row are functions of the PDF's own extracted
\* values and of the roster: whatever PDFs are processed before it, the row
\* carries the same two statuses.
C26_FilaSoloDependeDelPdf ==
    op = OpUnidos2Val =>
        \A k \in FilasDeRegistros :
            \A otros \in SeqsUpTo(PdfValores, MaxPdf) :
                LET previo == EstadoDocTras(otros, SinAsignar)
                    e == IF previo = Fallo THEN SinAsignar
                         ELSE EstadoDocUnidos2(pdfs[k].numero, previo)
                IN  e # SinAsignar =>
                        /\ resultados[k].estado_doc = e
                        /\ resultados[k].estado_nombre = EstadoNombreUnidos2(pdfs[k])

\* C27: in unidos2.procesar_validacion_completa a PDF whose best name
\* similarity is below 50 gets a row with no suggested roster name and the
\* name status "NO EXISTE EN EL REPORTE DE INSCRIPCION", whether or not a
\* document number was extracted from it.
C27_BajoCincuentaNoExiste ==
    op = OpUnidos2Val =>
        \A k \in FilasDeRegistros :
            resultados[k].sim_nombre < 50 =>
                /\ resultados[k].mejor_nombre = <<>>
                /\ resultados[k].estado_nombre = EstadoNoExiste

\* one step of a document comparator leaves the lists of its caller as they
\* were, and what it returns is what a call with these lists returns
PasoSinTocarListas ==
    op \in ComparadoresDocumentos =>
        /\ documentos_excel' = documentos_excel
        /\ documentos_pdf' = documentos_pdf
        /\ fase' = "fin" =>
               resultados' = CompararDocumentos(op, documentos_pdf', documentos_excel',
                                                documentos_excel')

\* C29: document reconciliation leaves the roster list and the record list of
\* its caller unchanged, consuming from a private copy: after the comparator
\* returns, the roster has the same elements in the same order as before the
\* call, and a second call with the same arguments returns the same results.
C29_ListasDelLlamador == [][PasoSinTocarListas]_vars

\* C29 happens: unidos.comparar_documentos_exactos has returned after
\* consuming "123" from its copy, and the roster of the caller still holds it.
C29_Testigo ==
    /\ op = OpUnidosDoc /\ fase = "fin"
    /\ documentos_excel = <<D123>> /\ disponibles = <<>>
    /\ Len(resultados) = 2
    /\ resultados[1].documento = D123 /\ resultados[1].estado = <<"U+2714 EXACTA">>
    /\ resultados[2].documento = D123 /\ resultados[2].estado = <<"U+26A0 ALTA", 100>>

\* C30: each comparison started from the GUI runs its reconciliation loop in
\* one thread over its own availability list, so when two comparisons run
\* concurrently in background threads, under every interleaving the rows of
\* each run are the rows it would produce running alone.
C30_CadaHiloComoSolo ==
    \A h \in Hilos :
        hilos[h].fase \in {"pdfs", "fin"} =>
            hilos[h].resultados =
                CompararDocumentos(ComparadorDe(op),
                                   SubSeq(hilos[h].documentos_pdf, 1, hilos[h].i),
                                   hilos[h].documentos_excel, hilos[h].documentos_excel)

\* C30 happens: two runs over the same folder and the same roster, the first
\* has returned after claiming "123" and the second is between its two
\* records, having claimed "123" from its own copy.
C30_Testigo ==
    /\ hilos["hilo1"].fase = "fin" /\ hilos["hilo2"].fase = "pdfs"
    /\ hilos["hilo1"].documentos_excel = <<D123>>
    /\ hilos["hilo2"].documentos_excel = <<D123>>
    /\ hilos["hilo1"].disponibles = <<>> /\ hilos["hilo2"].disponibles = <<>>
    /\ Len(hilos["hilo2"].documentos_pdf) = 2
    /\ hilos["hilo2"].i = 1
    /\ op = OpGuiUnidos
    /\ hilos["hilo1"].resultados[1].estado = <<"U+2714 EXACTA">>
    /\ hilos["hilo2"].resultados[1].estado = <<"U+2714 EXACTA">>

==========================================================================
